---- MODULE Spec2Model ----
(***************************************************************************)
(* LegalLens backend: the analysis endpoints of                            *)
(* backend/app/api/comprehensive_analysis.py together with the text        *)
(* extractor of backend/app/services/document_ai_service.py, and the       *)
(* summaries service of backend/app/services/legal_text_service.py with    *)
(* its mock data (mock_data_service.py) and its Firestore client           *)
(* (firestore_service.py).                                                 *)
(*                                                                         *)
(* Strings are sequences of code points, so that prefix tests, case        *)
(* folding, decimal formatting and the ordering used by sorted() are       *)
(* computed the way Python computes them.  The handlers are coroutines on  *)
(* one event loop: a handler runs atomically between two awaits, so every  *)
(* action below is the code between two suspension points.                 *)
(***************************************************************************)
EXTENDS Integers, Sequences, FiniteSets, TLC

VARIABLES
    analysis_storage,   \* the module-level dict: storage key -> stored entry
    storage_file,       \* contents of analysis_storage.json
    clock,              \* int(time.time()) as the process would read it now
    reqs,               \* per request slot: the handler's locals and position
    inserted,           \* history: the storage keys written, oldest first
    MOCK_SUMMARIES,     \* MockDataService.MOCK_SUMMARIES, the class attribute
    db,                 \* Firestore: users/{document}/summaries/{id} -> data
    call                \* the last call of the summaries service, its result

vars == <<analysis_storage, storage_file, clock, reqs, inserted,
          MOCK_SUMMARIES, db, call>>
\* the router's variables, and the summaries service's
rvars == <<analysis_storage, storage_file, clock, reqs, inserted>>
svars == <<MOCK_SUMMARIES, db, call>>

----------------------------------------------------------------------------
(* Bounds of the model *)

MaxInFlight == 2        \* requests that may be in flight at once
MaxTicks == 1           \* seconds the clock advances in the general scenario
MaxEntries == 2         \* entries the table may reach in the general scenario
StartTime == 1793499998 \* the clock's value when the process starts

----------------------------------------------------------------------------
(* Python string primitives *)

Min(S) == CHOOSE x \in S : \A y \in S : x <= y

\* str.lower() on the code points used here (ASCII letters fold, others stay)
Lower(s) == [i \in 1..Len(s) |-> IF s[i] \in 65..90 THEN s[i] + 32 ELSE s[i]]

\* str.startswith(p)
StartsWith(s, p) == Len(s) >= Len(p) /\ SubSeq(s, 1, Len(p)) = p

\* sub in s
Contains(s, sub) ==
    \E i \in 0..(Len(s) - Len(sub)) : SubSeq(s, i + 1, i + Len(sub)) = sub

\* a < b for str: code point order, a proper prefix sorts first
StrLess(a, b) ==
    LET n == IF Len(a) < Len(b) THEN Len(a) ELSE Len(b)
        d == {i \in 1..n : a[i] # b[i]}
    IN  IF d = {} THEN Len(a) < Len(b) ELSE a[Min(d)] < b[Min(d)]

\* str(n) for n >= 0: decimal digits, most significant first
RECURSIVE IntToStr(_)
IntToStr(n) ==
    IF n < 10 THEN <<48 + n>> ELSE IntToStr(n \div 10) \o <<48 + (n % 10)>>

\* the characters str.strip() removes
Whitespace == {9, 10, 11, 12, 13, 32}

\* str.strip()
Strip(s) ==
    LET keep == {i \in 1..Len(s) : s[i] \notin Whitespace}
    IN  IF keep = {} THEN <<>>
        ELSE SubSeq(s, Min(keep), CHOOSE j \in keep : \A k \in keep : k <= j)

\* sorted(keys): the list of the strings of S in ascending order
RECURSIVE Sorted(_)
Sorted(S) ==
    IF S = {} THEN <<>>
    ELSE LET m == CHOOSE x \in S : \A y \in S : x = y \/ StrLess(x, y)
         IN  <<m>> \o Sorted(S \ {m})

\* Optional[...] values: None and a present value
None == <<>>
Some(x) == <<x>>

----------------------------------------------------------------------------
(* Identifiers and inputs *)

\* "smp@gmail.com"
DEMO_USER_EMAIL == <<115, 109, 112, 64, 103, 109, 97, 105, 108, 46, 99, 111, 109>>

\* "SMP@gmail.com": the demo account as a client may spell it
DemoShout == <<83, 77, 80, 64, 103, 109, 97, 105, 108, 46, 99, 111, 109>>

\* "al" and "al_x": two ordinary accounts, the second extending the first
UserA == <<97, 108>>
UserB == <<97, 108, 95, 120>>
\* "al_0": sorts before every key of "al", "al_x" after
UserC == <<97, 108, 95, 48>>

Users == {UserA, UserB, DemoShout}

\* document titles: "Rent", "nda", "Legal Document" (the request's default)
TitleRent == <<82, 101, 110, 116>>
TitleNda == <<110, 100, 97>>
TitleDefault == <<76, 101, 103, 97, 108, 32, 68, 111, 99, 117, 109, 101, 110, 116>>
Titles == {TitleRent, TitleDefault}

\* the titles a demo client may send: "", "Rental", "Rental NDA", "Internship",
\* "Confidentiality", "nda \u0b95\u0b9f\u0ba9\u0bcd", "\u0b95\u0b9f\u0ba9\u0bcd"
\* (the Tamil word for loan), "Tamil", "kadan", besides the three above
TitleNone == <<>>
TitleRental == <<82, 101, 110, 116, 97, 108>>
TitleRentalNda == <<82, 101, 110, 116, 97, 108, 32, 78, 68, 65>>
TitleInternship == <<73, 110, 116, 101, 114, 110, 115, 104, 105, 112>>
TitleConfidentiality ==
    <<67, 111, 110, 102, 105, 100, 101, 110, 116, 105, 97, 108, 105, 116, 121>>
TitleNdaKadan == <<110, 100, 97, 32, 2965, 2975, 2985, 3021>>
TitleKadanScript == <<2965, 2975, 2985, 3021>>
TitleTamil == <<84, 97, 109, 105, 108>>
TitleKadan == <<107, 97, 100, 97, 110>>
DemoTitles ==
    {TitleNone, TitleRent, TitleNda, TitleDefault, TitleRental, TitleRentalNda,
     TitleInternship, TitleConfidentiality, TitleNdaKadan, TitleKadanScript,
     TitleTamil, TitleKadan}

\* document texts: "", " \n" and "rent"
TextEmpty == <<>>
TextBlank == <<32, 10>>
TextRent == <<114, 101, 110, 116>>

\* what the analyzer can hand back for a text
Analyses == {"r1", "r2"}

\* is_demo_user without the case folding
IsDemoUserExact(user_email) == user_email = DEMO_USER_EMAIL

is_demo_user(user_email) == Lower(user_email) = Lower(DEMO_USER_EMAIL)

\* get_demo_analysis_data with its first two tests in the other order
DemoDataInternshipFirst(document_title) ==
    LET t == Lower(document_title)
    IN  IF \/ Contains(t, <<105, 110, 116, 101, 114, 110, 115, 104, 105, 112>>)
           \/ Contains(t, <<110, 100, 97>>)
           \/ Contains(t, <<99, 111, 110, 102, 105, 100, 101, 110, 116, 105, 97, 108, 105, 116, 121>>)
          THEN "internship_demo_data"
        ELSE IF Contains(t, <<114, 101, 110, 116>>) THEN "rental_demo_data"
        ELSE IF \/ Contains(t, <<107, 97, 100, 97, 110>>)
                \/ Contains(t, <<116, 97, 109, 105, 108>>)
                \/ Contains(document_title, <<2965, 2975, 2985, 3021>>)
          THEN "tamil_demo_data"
        ELSE "loan_demo_data"

get_demo_analysis_data(document_title) ==
    LET t == Lower(document_title)
    IN  IF Contains(t, <<114, 101, 110, 116, 97, 108>>) \/ Contains(t, <<114, 101, 110, 116>>)
          THEN "rental_demo_data"
        ELSE IF \/ Contains(t, <<105, 110, 116, 101, 114, 110, 115, 104, 105, 112>>)
                \/ Contains(t, <<110, 100, 97>>)
                \/ Contains(t, <<99, 111, 110, 102, 105, 100, 101, 110, 116, 105, 97, 108, 105, 116, 121>>)
          THEN "internship_demo_data"
        ELSE IF \/ Contains(t, <<107, 97, 100, 97, 110>>)
                \/ Contains(t, <<116, 97, 109, 105, 108>>)
                \/ Contains(document_title, <<2965, 2975, 2985, 3021>>)
          THEN "tamil_demo_data"
        ELSE "loan_demo_data"

----------------------------------------------------------------------------
(* The result store *)

Retention == 10

\* f"{user_email}_{int(time.time())}"
StorageKey(user_email, now) == user_email \o <<95>> \o IntToStr(now)

\* [k for k in analysis_storage.keys() if k.startswith(f"{user_email}_")]
UserKeys(storage, user_email) ==
    {k \in DOMAIN storage : StartsWith(k, user_email \o <<95>>)}

\* a variant of StoreEntry that replaces the table by the new entry alone
StoreOnlyEntry(storage, key, entry) == [k \in {key} |-> entry]

\* analysis_storage[storage_key] = {...}
StoreEntry(storage, key, entry) ==
    [k \in (DOMAIN storage) \cup {key} |-> IF k = key THEN entry ELSE storage[k]]

Entry(analysis, text, user_email, now) ==
    [full_analysis |-> analysis, extracted_text |-> text,
     user_email |-> user_email, timestamp |-> now]

\* sorted(user_keys)[:-10] when len(user_keys) > 10, else nothing
OldestKeys(storage, user_email) ==
    LET ks == UserKeys(storage, user_email)
        srt == Sorted(ks)
    IN  IF Cardinality(ks) > Retention
          THEN {srt[i] : i \in 1..(Len(srt) - Retention)}
          ELSE {}

\* for old_key in oldest_keys: analysis_storage.pop(old_key, None)
Cleanup(storage, user_email) ==
    LET old == OldestKeys(storage, user_email)
    IN  [k \in (DOMAIN storage) \ old |-> storage[k]]

\* sorted(user_keys)[-1]
LatestKey(storage, user_email) ==
    LET srt == Sorted(UserKeys(storage, user_email)) IN srt[Len(srt)]

\* json.dump of the table: one member per key, the key beside its entry
JsonDump(storage) == {<<k, storage[k]>> : k \in DOMAIN storage}

\* json.load of such a document: the dict of its members
JsonLoad(members) ==
    [k \in {m[1] : m \in members} |-> (CHOOSE m \in members : m[1] = k)[2]]

\* the file after save_analysis_storage(storage) with the given outcome:
\* written, open() refused (file as before), or json.dump cut short
SaveOutcomes == {"written", "open_failed", "dump_failed"}
CorruptFile == [unparsable |-> TRUE]
AbsentFile == [absent |-> TRUE]
\* save_analysis_storage that leaves the file alone
SaveSkipped(storage, file, outcome) == file

save_analysis_storage(storage, file, outcome) ==
    CASE outcome = "written" -> [members |-> JsonDump(storage)]
      [] outcome = "open_failed" -> file
      [] OTHER -> CorruptFile

\* what save_analysis_storage lets out to its caller with the given outcome
\* without its try/except: the error of open() or json.dump
SaveRaisedUncaught(outcome) == outcome # "written"

\* what save_analysis_storage lets out to its caller: its except clause logs
\* the error and returns, whatever the outcome
SaveRaised(outcome) == FALSE

\* load_analysis_storage() that never reads the file
LoadNothing(file) == [k \in {} |-> 0]

\* load_analysis_storage(): the table of a readable file, else {}
EmptyTable == [k \in {} |-> 0]
load_analysis_storage(file) ==
    IF "members" \in DOMAIN file THEN JsonLoad(file.members) ELSE EmptyTable

----------------------------------------------------------------------------
(* The text extractor (DocumentAIService) *)

\* media types as <<type, subtype>>; a request without a content type has None
MimePdf == <<"application", "pdf">>
MimeOctet == <<"application", "octet-stream">>
MimePng == <<"image", "png">>
MimeText == <<"text", "plain">>

\* WEBP: b'RIFF' first and b'WEBP' somewhere in file_content[:12]
IsWebp(file_content) ==
    /\ StartsWith(file_content, <<82, 73, 70, 70>>)
    /\ Contains(SubSeq(file_content, 1, IF Len(file_content) < 12 THEN Len(file_content) ELSE 12),
                <<87, 69, 66, 80>>)

\* _detect_file_type that trusts the declared type
DeclaredTypeOnly(file_content, mime_type) == mime_type

_detect_file_type(file_content, mime_type) ==
    IF StartsWith(file_content, <<37, 80, 68, 70>>) THEN MimePdf
    ELSE IF StartsWith(file_content, <<255, 216, 255>>) THEN <<"image", "jpeg">>
    ELSE IF StartsWith(file_content, <<137, 80, 78, 71>>) THEN MimePng
    ELSE IF \/ StartsWith(file_content, <<71, 73, 70, 56, 55, 97>>)
            \/ StartsWith(file_content, <<71, 73, 70, 56, 57, 97>>) THEN <<"image", "gif">>
    ELSE IF StartsWith(file_content, <<66, 77>>) THEN <<"image", "bmp">>
    ELSE IF IsWebp(file_content) THEN <<"image", "webp">>
    ELSE IF \/ StartsWith(file_content, <<73, 73, 42, 0>>)
            \/ StartsWith(file_content, <<77, 77, 0, 42>>) THEN <<"image", "tiff">>
    ELSE mime_type

\* "\n\n".join(...) of the pages whose text is not blank, each under its
\* "=== Page n ===\n" heading (the heading is written as "=n\n" here)
RECURSIVE JoinPages(_, _)
JoinPages(pages, n) ==
    IF n > Len(pages) THEN <<>>
    ELSE LET rest == JoinPages(pages, n + 1)
             this == IF Strip(pages[n]) # <<>>
                       THEN <<61, 48 + n, 10>> \o pages[n] ELSE <<>>
         IN  IF this = <<>> THEN rest
             ELSE IF rest = <<>> THEN this
             ELSE this \o <<10, 10>> \o rest

\* "No text could be extracted from this PDF. ..." (first words)
NoPdfText == <<78, 111, 32, 116, 101, 120, 116>>
\* "Error extracting text ..." (first word), for a PDF fitz cannot open and
\* for a failed Gemini call
ErrorText == <<69, 114, 114, 111, 114>>
\* "Unsupported file type: ..." (first word)
UnsupportedText == <<85, 110, 115, 117, 112, 112, 111, 114, 116, 101, 100>>
\* "No text could be extracted from this image using Gemini API." (first words)
NoImageText == <<78, 111, 32, 116, 101, 120, 116>>
\* "Document processed using: ...\nMIME Type: ...\nProcessed at: ...\n\n"
\* (the first word and the closing blank line)
TextHeader == <<68, 111, 99, 117, 109, 101, 110, 116, 10, 10>>

\* _extract_text_with_gemini: reply is the model's response.text, or None
\* when the call raises
_extract_text_with_gemini(reply) ==
    IF reply = None THEN ErrorText
    ELSE IF reply[1] # <<>> THEN Strip(reply[1])
    ELSE NoImageText

\* process_document.  upload.pages is what fitz reads from the bytes (None:
\* fitz raises), upload.ocr what Gemini answers, disk whether the text file
\* can be written.
process_document(upload, disk) ==
    LET actual == _detect_file_type(upload.content, upload.mime_type)
        method == IF actual = MimePdf THEN "pdf_pymupdf"
                  ELSE IF actual # None /\ actual[1] = "image" THEN "gemini_api"
                  ELSE "unsupported"
        text == IF actual = MimePdf
                  THEN IF upload.pages = None THEN ErrorText
                       ELSE IF JoinPages(upload.pages[1], 1) # <<>>
                              THEN JoinPages(upload.pages[1], 1)
                       ELSE NoPdfText
                ELSE IF method = "gemini_api"
                  THEN _extract_text_with_gemini(upload.ocr)
                ELSE UnsupportedText
    IN  IF (actual = None) \/ (disk = "io_error")
          THEN [raised |-> TRUE, text |-> <<>>, confidence |-> 0,
                processing_method |-> method, mime_type |-> actual]
          ELSE [raised |-> FALSE, text |-> TextHeader \o text,
                confidence |-> IF method \in {"pdf_pymupdf", "gemini_api"} THEN 95 ELSE 0,
                processing_method |-> method, mime_type |-> actual]

\* uploads: a PDF with a text layer, a scanned PDF (pages without text) sent
\* as octet-stream, a PNG, a plain text file, a PDF fitz cannot open, a PNG
\* for which the Gemini call raises, and a part sent without a content type
UploadPdf == [content |-> <<37, 80, 68, 70, 45>>, mime_type |-> MimePdf,
              pages |-> Some(<<TextRent>>), ocr |-> None]
UploadScan == [content |-> <<37, 80, 68, 70, 45>>, mime_type |-> MimeOctet,
               pages |-> Some(<<TextEmpty, TextBlank>>), ocr |-> None]
UploadPng == [content |-> <<137, 80, 78, 71, 13>>, mime_type |-> MimePng,
              pages |-> None, ocr |-> Some(TextBlank)]
UploadTxt == [content |-> <<114, 101>>, mime_type |-> MimeText,
              pages |-> None, ocr |-> None]
UploadCorrupt == [content |-> <<37, 80, 68, 70, 0>>, mime_type |-> MimePdf,
                  pages |-> None, ocr |-> None]
UploadPngFail == [content |-> <<137, 80, 78, 71, 0>>, mime_type |-> MimePng,
                  pages |-> None, ocr |-> None]
UploadBare == [content |-> <<114, 101>>, mime_type |-> None,
               pages |-> None, ocr |-> None]
NoUpload == [content |-> <<>>, mime_type |-> None, pages |-> None, ocr |-> None]
Uploads == {UploadPdf, UploadScan, UploadPng, UploadTxt,
            UploadCorrupt, UploadPngFail, UploadBare}

\* file contents by their first bytes: %PDF-, JPEG (FF D8 FF E0), PNG (the
\* eight signature bytes), GIF87a, GIF89a, BM, RIFF <size> WEBP, TIFF in both
\* byte orders, and without a signature: RIFF <size> WAVE, "re", nothing
FileContents ==
    {<<37, 80, 68, 70, 45>>, <<255, 216, 255, 224>>,
     <<137, 80, 78, 71, 13, 10, 26, 10>>,
     <<71, 73, 70, 56, 55, 97>>, <<71, 73, 70, 56, 57, 97, 1>>, <<66, 77, 0>>,
     <<82, 73, 70, 70, 36, 0, 0, 0, 87, 69, 66, 80, 86>>,
     <<73, 73, 42, 0>>, <<77, 77, 0, 42, 0>>,
     <<82, 73, 70, 70, 36, 0, 0, 0, 87, 65, 86, 69>>, <<114, 101>>, <<>>}
DeclaredTypes == {MimePdf, MimeOctet, MimePng, MimeText, None}

\* every content under every declared type, readable or not
AnyUploads ==
    {[content |-> c, mime_type |-> m, pages |-> p, ocr |-> o] :
        c \in FileContents, m \in DeclaredTypes,
        p \in {None, Some(<<TextRent>>)}, o \in {None, Some(TextRent)}}

----------------------------------------------------------------------------
(* Collaborators outside the repository's sources: what they may answer *)

\* mcp_server.route_request(...): a result with success and data, a result
\* with success = False and an error, or an exception
RouteReplies(analyses) ==
    [kind : {"ok"}, val : analyses] \cup
    {[kind |-> "fail", val |-> "llm error"], [kind |-> "raise", val |-> "timeout"]}

\* ComprehensiveLegalAnalyzer.analyze_document(...): a record or an exception
AnalyzerReplies(analyses) ==
    [kind : {"ok"}, val : analyses] \cup {[kind |-> "raise", val |-> "timeout"]}

\* LegalReportGenerator.generate_comprehensive_report(...): bytes or an exception
RenderReplies == {"ok", "raise"}

----------------------------------------------------------------------------
(* Requests *)

\* op: the endpoint; pc: where the handler is suspended; reply: what the
\* analyzer answered (the handler's result); called: the collaborators the
\* handler has invoked; status, detail: the response or the HTTPException;
\* extraction: what process_document returned, without the text; saved: how
\* the handler's save_analysis_storage ended, as its log line tells;
\* available_users: the identifiers the guidance message lists
NoReply == [kind |-> "none", val |-> ""]
NoExtraction == [raised |-> FALSE, confidence |-> 0, processing_method |-> "",
                 mime_type |-> None]
Idle ==
    [op |-> "idle", pc |-> "idle", user_email |-> <<>>, document_title |-> <<>>,
     extracted_text |-> <<>>, upload |-> NoUpload, analysis |-> "",
     reply |-> NoReply, storage_key |-> None, called |-> {}, status |-> 0,
     detail |-> <<>>, extraction |-> NoExtraction, saved |-> "",
     available_users |-> {}]

Free(s) == reqs[s].pc \in {"idle", "done"}
InFlight == {s \in DOMAIN reqs : ~Free(s)}

\* a handler without except clauses: what it raises leaves the endpoint as it
\* is, and the client gets a bare 500 without a detail
RespondUntranslated(r, status, detail) ==
    [r EXCEPT !.pc = "done", !.status = IF status = 200 THEN 200 ELSE 500,
              !.detail = <<>>,
              !.document_title = <<>>, !.extracted_text = <<>>, !.upload = NoUpload]

\* the handler returns or raises HTTPException(status, detail)
\* (what is left in the slot is the response; the request's inputs are dropped)
Respond(r, status, detail) ==
    [r EXCEPT !.pc = "done", !.status = status, !.detail = detail,
              !.document_title = <<>>, !.extracted_text = <<>>, !.upload = NoUpload]

\* A scenario bounds what the environment does: who sends requests, how many
\* at once, how far the clock runs, how many store writes it makes, how a save
\* may end.  paced: one client sends its requests one after the other, at most
\* a second apart, and the keys it writes are recorded in order; puts then
\* bounds the writes, and otherwise the entries of the table; the first lead
\* of these writes are the first client's, after them any client may send.
General ==
    [users |-> Users, slots |-> {1}, ticks |-> MaxTicks,
     puts |-> MaxEntries, saves |-> {"written"}, paced |-> FALSE, lead |-> 0,
     titles |-> Titles, analyses |-> Analyses, uploads |-> Uploads]
Sequential ==
    [users |-> {UserA, DEMO_USER_EMAIL}, slots |-> {1}, ticks |-> Retention + 1,
     puts |-> Retention + 1, saves |-> {"written"}, paced |-> TRUE, lead |-> Retention + 2,
     titles |-> {TitleDefault}, analyses |-> {"r1"}, uploads |-> Uploads]
\* the demo account alone, two requests side by side
Demo ==
    [users |-> {DemoShout}, slots |-> {1, 2}, ticks |-> 0,
     puts |-> MaxEntries, saves |-> {"written"}, paced |-> FALSE, lead |-> 0,
     titles |-> DemoTitles, analyses |-> {"r1"}, uploads |-> Uploads]
\* one client uploading files of every kind
Extraction ==
    [users |-> {UserA}, slots |-> {1}, ticks |-> 0,
     puts |-> MaxEntries, saves |-> {"written"}, paced |-> FALSE, lead |-> 0,
     titles |-> {TitleDefault}, analyses |-> {"r1"}, uploads |-> AnyUploads]
\* a disk on which a save may fail, and a process that may be restarted
Faulty ==
    [users |-> {UserA, DemoShout}, slots |-> {1, 2}, ticks |-> MaxTicks,
     puts |-> MaxEntries, saves |-> SaveOutcomes, paced |-> FALSE, lead |-> 0,
     titles |-> {TitleDefault}, analyses |-> {"r1"}, uploads |-> Uploads]

\* two clients of the same service, two requests side by side
Concurrent ==
    [users |-> {UserA, UserB}, slots |-> {1, 2}, ticks |-> MaxTicks,
     puts |-> MaxEntries, saves |-> {"written"}, paced |-> FALSE, lead |-> 0,
     titles |-> {TitleDefault}, analyses |-> Analyses, uploads |-> Uploads]
\* a client that fills its share of the table, a second at a time, and then
\* a client whose identifier is a neighbour of the first one's
Neighbours ==
    [users |-> {UserA, UserB, UserC}, slots |-> {1}, ticks |-> Retention + 1,
     puts |-> Retention + 1, saves |-> {"written"}, paced |-> TRUE,
     lead |-> Retention,
     titles |-> {TitleDefault}, analyses |-> {"r1"}, uploads |-> Uploads]

LastPutTime == IF inserted = <<>> THEN StartTime ELSE inserted[Len(inserted)].at

\* a request of user u that may write to the store can start
MayStart(sc, s, u) ==
    /\ s \in sc.slots /\ u \in sc.users /\ Free(s)
    /\ IF sc.paced /\ inserted # <<>> /\ Len(inserted) < sc.lead
         THEN inserted[1].user_email = u ELSE TRUE
MayWrite(sc) ==
    IF sc.paced THEN Len(inserted) < sc.puts
    ELSE Cardinality(DOMAIN analysis_storage) + Cardinality(InFlight) < sc.puts

Record(sc, key, user_email) ==
    IF sc.paced
      THEN Append(inserted, [key |-> key, user_email |-> user_email, at |-> clock])
      ELSE inserted

\* a second passes
Tick(sc) ==
    /\ clock - StartTime < sc.ticks
    /\ IF sc.paced THEN clock = LastPutTime ELSE TRUE
    /\ clock' = clock + 1
    /\ UNCHANGED <<analysis_storage, storage_file, reqs, inserted>>
    /\ UNCHANGED svars

(* POST /comprehensive-analysis *)

\* demo branch: no await, the whole handler is one step (the title stays in
\* the slot with the response, whose record it selected)
ComprehensiveAnalysisDemo(sc, s, u, title, text, save) ==
    /\ MayStart(sc, s, u) /\ MayWrite(sc)
    /\ is_demo_user(u)
    /\ LET analysis_data == get_demo_analysis_data(title)
           storage_key == StorageKey(u, clock)
           stored == StoreEntry(analysis_storage, storage_key,
                                Entry(analysis_data, text, u, clock))
           r == [Idle EXCEPT !.op = "comprehensive_analysis",
                             !.user_email = u, !.extracted_text = text,
                             !.analysis = analysis_data,
                             !.storage_key = storage_key,
                             !.called = {"store"}, !.saved = save]
           sent == IF SaveRaised(save)
                     THEN Respond(r, 500, <<"Comprehensive analysis failed", save>>)
                     ELSE Respond(r, 200, <<>>)
       IN  /\ analysis_storage' = stored
           /\ storage_file' = save_analysis_storage(stored, storage_file, save)
           /\ inserted' = Record(sc, storage_key, u)
           /\ reqs' = [reqs EXCEPT ![s] = [sent EXCEPT !.document_title = title]]
    /\ UNCHANGED clock
    /\ UNCHANGED svars

\* non-demo: up to "await mcp_server.route_request(...)" (the title is not read)
ComprehensiveAnalysisCall(sc, s, u, text) ==
    /\ MayStart(sc, s, u) /\ MayWrite(sc)
    /\ ~is_demo_user(u)
    /\ reqs' = [reqs EXCEPT ![s] =
           [Idle EXCEPT !.op = "comprehensive_analysis", !.pc = "await_route",
                        !.user_email = u, !.extracted_text = text,
                        !.called = {"analyzer"}]]
    /\ UNCHANGED <<analysis_storage, storage_file, clock, inserted>>
    /\ UNCHANGED svars

\* the store write of the non-demo branch: insert, clean up
PutAndCleanup(storage, r, analysis_data, now) ==
    Cleanup(StoreEntry(storage, StorageKey(r.user_email, now),
                       Entry(analysis_data, r.extracted_text, r.user_email, now)),
            r.user_email)

\* RouteStored with the store write moved ahead of the "if not result.success"
\* test: whatever route_request returns is stored
RouteStoredUnchecked(storage, r, reply, now) ==
    IF reply.kind = "raise" THEN storage
    ELSE PutAndCleanup(storage, r, reply.val, now)

\* the table once the handler has dealt with the reply of route_request: only
\* a result with success reaches the store write
RouteStored(storage, r, reply, now) ==
    IF reply.kind = "ok" THEN PutAndCleanup(storage, r, reply.val, now) ELSE storage

\* non-demo: from the reply of route_request to the response
ComprehensiveAnalysisResume(sc, s, reply, save) ==
    /\ s \in sc.slots
    /\ reqs[s].op = "comprehensive_analysis" /\ reqs[s].pc = "await_route"
    /\ LET r == [reqs[s] EXCEPT !.reply = reply]
           storage_key == StorageKey(r.user_email, clock)
           stored == RouteStored(analysis_storage, r, reply, clock)
       IN  /\ analysis_storage' = stored
           /\ CASE reply.kind = "raise" ->
                     /\ reqs' = [reqs EXCEPT ![s] =
                            Respond(r, 500, <<"Comprehensive analysis failed", reply.val>>)]
                     /\ UNCHANGED <<storage_file, inserted>>
                [] reply.kind = "fail" ->
                     /\ reqs' = [reqs EXCEPT ![s] =
                            Respond(r, 500, <<"Analysis failed", reply.val>>)]
                     /\ UNCHANGED <<storage_file, inserted>>
                [] OTHER ->
                     /\ storage_file' = save_analysis_storage(stored, storage_file, save)
                     /\ inserted' = Record(sc, storage_key, r.user_email)
                     /\ reqs' = [reqs EXCEPT ![s] =
                            LET w == [r EXCEPT !.analysis = reply.val,
                                              !.storage_key = storage_key,
                                              !.called = @ \cup {"store"},
                                              !.saved = save]
                            IN  IF SaveRaised(save)
                                  THEN Respond(w, 500, <<"Comprehensive analysis failed", save>>)
                                  ELSE Respond(w, 200, <<>>)]
    /\ UNCHANGED clock
    /\ UNCHANGED svars

(* POST /analyze-document-file *)

\* up to "await doc_ai_service.process_document(...)" (the title is not read)
AnalyzeFileCall(sc, s, u, upload) ==
    /\ MayStart(sc, s, u)
    /\ reqs' = [reqs EXCEPT ![s] =
           [Idle EXCEPT !.op = "analyze_document_file", !.pc = "await_extract",
                        !.user_email = u, !.upload = upload,
                        !.called = {"extractor"}]]
    /\ UNCHANGED <<analysis_storage, storage_file, clock, inserted>>
    /\ UNCHANGED svars

\* from the extractor's result to "await mcp_server.route_request(...)"
AnalyzeFileExtracted(sc, s, disk) ==
    /\ s \in sc.slots
    /\ reqs[s].op = "analyze_document_file" /\ reqs[s].pc = "await_extract"
    /\ LET r == reqs[s]
           extraction_result == process_document(r.upload, disk)
           extracted_text == extraction_result.text
           got == [r EXCEPT !.extraction =
                       [f \in DOMAIN NoExtraction |-> extraction_result[f]]]
       IN  reqs' = [reqs EXCEPT ![s] =
               IF extraction_result.raised
                 THEN Respond(got, 500, <<"Document analysis failed",
                                          "Failed to process document">>)
               ELSE IF Strip(extracted_text) = <<>>
                 THEN Respond(got, 400, <<"No text could be extracted from the document">>)
               ELSE [got EXCEPT !.pc = "await_route",
                                !.extracted_text = extracted_text,
                                !.called = @ \cup {"analyzer"}]]
    /\ UNCHANGED <<analysis_storage, storage_file, clock, inserted>>
    /\ UNCHANGED svars

\* from the reply of route_request to the response
AnalyzeFileResume(sc, s, reply) ==
    /\ s \in sc.slots
    /\ reqs[s].op = "analyze_document_file" /\ reqs[s].pc = "await_route"
    /\ LET r == [reqs[s] EXCEPT !.reply = reply] IN
       reqs' = [reqs EXCEPT ![s] =
           CASE reply.kind = "raise" ->
                  Respond(r, 500, <<"Document analysis failed", reply.val>>)
             [] reply.kind = "fail" ->
                  Respond(r, 500, <<"Analysis failed", reply.val>>)
             [] OTHER ->
                  Respond([r EXCEPT !.analysis = reply.val], 200, <<>>)]
    /\ UNCHANGED <<analysis_storage, storage_file, clock, inserted>>
    /\ UNCHANGED svars

(* POST /generate-pdf-from-document *)

\* the file chosen by the words that name the download (doc_type) instead
DemoPdfByDocType(document_title) ==
    LET t == Lower(document_title)
    IN  IF Contains(t, <<114, 101, 110, 116, 97, 108>>) THEN "rental_result.pdf"
        ELSE IF \/ Contains(t, <<105, 110, 116, 101, 114, 110, 115, 104, 105, 112>>)
                \/ Contains(t, <<110, 100, 97>>)
          THEN "result_intern.pdf"
        ELSE "loan_result.pdf"

get_demo_pdf_path(document_title) ==
    LET t == Lower(document_title)
    IN  IF Contains(t, <<114, 101, 110, 116, 97, 108>>) \/ Contains(t, <<114, 101, 110, 116>>)
          THEN "rental_result.pdf"
        ELSE IF \/ Contains(t, <<105, 110, 116, 101, 114, 110, 115, 104, 105, 112>>)
                \/ Contains(t, <<110, 100, 97>>)
                \/ Contains(t, <<99, 111, 110, 102, 105, 100, 101, 110, 116, 105, 97, 108, 105, 116, 121>>)
          THEN "result_intern.pdf"
        ELSE IF \/ Contains(t, <<107, 97, 100, 97, 110>>)
                \/ Contains(t, <<116, 97, 109, 105, 108>>)
                \/ Contains(document_title, <<2965, 2975, 2985, 3021>>)
          THEN "result_kadan.pdf"
        ELSE "loan_result.pdf"

\* demo branch: the static file is read without an await.  title stands for
\* request.document_title or "".  found: whether open() finds the file.  The
\* title stays in the slot with the response, whose file it selected.
PdfFromDocumentDemo(sc, s, u, title, found) ==
    /\ MayStart(sc, s, u)
    /\ is_demo_user(u)
    /\ LET r == [Idle EXCEPT !.op = "generate_pdf_from_document",
                             !.user_email = u, !.document_title = title,
                             !.analysis = get_demo_pdf_path(title)]
           sent == IF found THEN Respond(r, 200, <<>>)
                   ELSE Respond(r, 500, <<"PDF generation failed", "500",
                                          "Demo PDF file not available">>)
       IN  reqs' = [reqs EXCEPT ![s] = [sent EXCEPT !.document_title = title]]
    /\ UNCHANGED <<analysis_storage, storage_file, clock, inserted>>
    /\ UNCHANGED svars

\* the position of the first c in s at or after from, Len(s) + 1 if none
Find(s, c, from) ==
    IF \E i \in from..Len(s) : s[i] = c
      THEN Min({i \in from..Len(s) : s[i] = c})
      ELSE Len(s) + 1

\* a guidance message that lists nobody
AvailableNone(all_keys) == {}

\* list(set([key.split('_')[0] + '@' + key.split('_')[1]
\*           for key in all_keys if '_' in key]))
available_users(all_keys) ==
    {LET i == Find(key, 95, 1)
         j == Find(key, 95, i + 1)
     IN  SubSeq(key, 1, i - 1) \o <<64>> \o SubSeq(key, i + 1, j - 1) :
       key \in {k \in all_keys : \E n \in 1..Len(k) : k[n] = 95}}

\* request.extracted_text and request.extracted_text.strip()
HasFreshText(extracted_text) ==
    /\ extracted_text # None
    /\ extracted_text[1] # <<>>
    /\ Strip(extracted_text[1]) # <<>>

\* non-demo: the choice among stored record, fresh analysis and failure, up
\* to the first await.  extracted_text is Optional; the title only names the
\* download.
PdfFromDocumentStart(sc, s, u, extracted_text) ==
    /\ MayStart(sc, s, u)
    /\ ~is_demo_user(u)
    /\ LET r == [Idle EXCEPT !.op = "generate_pdf_from_document",
                             !.user_email = u,
                             !.extracted_text =
                                 IF extracted_text = None THEN <<>> ELSE extracted_text[1]]
           user_keys == UserKeys(analysis_storage, u)
       IN  IF user_keys # {}
             THEN reqs' = [reqs EXCEPT ![s] =
                      [r EXCEPT !.pc = "await_render",
                                !.analysis =
                                    analysis_storage[LatestKey(analysis_storage, u)].full_analysis,
                                !.called = {"store_read", "renderer"}]]
           ELSE IF HasFreshText(extracted_text)
             THEN /\ MayWrite(sc)
                  /\ reqs' = [reqs EXCEPT ![s] =
                         [r EXCEPT !.pc = "await_analyzer", !.called = {"analyzer"}]]
           ELSE reqs' = [reqs EXCEPT ![s] =
                    Respond([r EXCEPT !.available_users =
                                 available_users(DOMAIN analysis_storage)],
                            500,
                            <<"PDF generation failed", "400",
                              IF DOMAIN analysis_storage # {}
                                THEN "No analysis data found for user"
                                ELSE "No analysis data available for PDF generation">>)]
    /\ UNCHANGED <<analysis_storage, storage_file, clock, inserted>>
    /\ UNCHANGED svars

\* from the analyzer's reply through the store write to the renderer's await
PdfFromDocumentAnalyzed(sc, s, reply, save) ==
    /\ s \in sc.slots
    /\ reqs[s].op = "generate_pdf_from_document" /\ reqs[s].pc = "await_analyzer"
    /\ LET r == [reqs[s] EXCEPT !.reply = reply] IN
       IF reply.kind = "raise"
         THEN /\ reqs' = [reqs EXCEPT ![s] =
                     Respond(r, 500, <<"PDF generation failed", reply.val>>)]
              /\ UNCHANGED <<analysis_storage, storage_file, inserted>>
         ELSE LET storage_key == StorageKey(r.user_email, clock)
                  stored == StoreEntry(analysis_storage, storage_key,
                                Entry(reply.val, r.extracted_text, r.user_email, clock))
              IN  /\ analysis_storage' = stored
                  /\ storage_file' = save_analysis_storage(stored, storage_file, save)
                  /\ inserted' = Record(sc, storage_key, r.user_email)
                  /\ reqs' = [reqs EXCEPT ![s] =
                         LET w == [r EXCEPT !.analysis = reply.val,
                                            !.storage_key = storage_key,
                                            !.called = @ \cup {"store"},
                                            !.saved = save]
                         IN  IF SaveRaised(save)
                               THEN Respond(w, 500, <<"PDF generation failed", save>>)
                               ELSE [w EXCEPT !.pc = "await_render",
                                              !.called = @ \cup {"renderer"}]]
    /\ UNCHANGED clock
    /\ UNCHANGED svars

\* from the renderer's reply to the response
PdfFromDocumentRendered(sc, s, reply) ==
    /\ s \in sc.slots
    /\ reqs[s].op = "generate_pdf_from_document" /\ reqs[s].pc = "await_render"
    /\ reqs' = [reqs EXCEPT ![s] =
           IF reply = "ok" THEN Respond(reqs[s], 200, <<>>)
           ELSE Respond(reqs[s], 500, <<"PDF generation failed", "render error">>)]
    /\ UNCHANGED <<analysis_storage, storage_file, clock, inserted>>
    /\ UNCHANGED svars

(* POST /generate-pdf-report *)

\* up to "await pdf_service.generate_comprehensive_report(...)"; the request
\* carries the analysis data itself
GeneratePdfReportCall(sc, s, analysis_data) ==
    /\ s \in sc.slots /\ Free(s)
    /\ reqs' = [reqs EXCEPT ![s] =
           [Idle EXCEPT !.op = "generate_pdf_report", !.pc = "await_render",
                        !.analysis = analysis_data, !.called = {"renderer"}]]
    /\ UNCHANGED <<analysis_storage, storage_file, clock, inserted>>
    /\ UNCHANGED svars

\* from the renderer's reply to the response
GeneratePdfReportRendered(sc, s, reply) ==
    /\ s \in sc.slots
    /\ reqs[s].op = "generate_pdf_report" /\ reqs[s].pc = "await_render"
    /\ reqs' = [reqs EXCEPT ![s] =
           IF reply = "ok" THEN Respond(reqs[s], 200, <<>>)
           ELSE Respond(reqs[s], 500, <<"PDF generation failed", "render error">>)]
    /\ UNCHANGED <<analysis_storage, storage_file, clock, inserted>>
    /\ UNCHANGED svars

(* GET /demo-documents *)

\* the four demo documents for the demo account, an empty list for anyone else
get_demo_documents(sc, s, u) ==
    /\ MayStart(sc, s, u)
    /\ reqs' = [reqs EXCEPT ![s] =
           Respond([Idle EXCEPT !.op = "get_demo_documents", !.user_email = u,
                                !.analysis = IF is_demo_user(u) THEN "demo_documents"
                                             ELSE "no_documents"],
                   200, <<>>)]
    /\ UNCHANGED <<analysis_storage, storage_file, clock, inserted>>
    /\ UNCHANGED svars

(* The process *)

\* the process is stopped and started again: the requests in flight are
\* gone, the module is imported anew and the table is loaded from the file
Restart ==
    /\ analysis_storage' = load_analysis_storage(storage_file)
    /\ reqs' = [s \in DOMAIN reqs |-> Idle]
    /\ UNCHANGED <<storage_file, clock, inserted>>
    /\ UNCHANGED svars

----------------------------------------------------------------------------
(* MockDataService *)

TEST_ACCOUNT_EMAIL == <<110, 101, 119, 64, 103, 109, 97, 105, 108, 46, 99, 111, 109>>
\* the test account as a client may spell it, and an ordinary address
TestShout == <<78, 101, 119, 64, 71, 109, 97, 105, 108, 46, 99, 111, 109>>
MailUser == <<97, 64, 98, 46, 99>>

\* a comparison that tells upper case from lower case
IsTestAccountExact(email) == email = TEST_ACCOUNT_EMAIL

\* email.lower() == cls.TEST_ACCOUNT_EMAIL.lower()
is_test_account(email) == Lower(email) = Lower(TEST_ACCOUNT_EMAIL)

\* one element of MOCK_SUMMARIES.  The texts of the source are long: each is
\* cut down to a word, between the line breaks and blanks that the source's
\* triple-quoted strings begin and end with; the simplified text keeps a
\* blank line and a list item.
Fixture(title, word, terms, spanner, fallbacks) ==
    [document_title |-> title,
     original_text |-> <<10>> \o word \o <<10, 32, 32>>,
     simplified_text |-> <<10>> \o word \o <<10, 10, 45, 32>> \o word \o <<10, 32, 32>>,
     extracted_terms |-> terms,
     processing_status |-> "completed",
     terms_count |-> 3,
     spanner_matches |-> spanner,
     gemini_fallbacks |-> fallbacks]

Fixtures ==
    << Fixture(<<67, 111, 109, 109, 101, 114, 99, 105, 97, 108, 32, 76, 101, 97, 115, 101, 32, 65, 103, 114, 101, 101, 109, 101, 110, 116>>,
               <<76, 101, 97, 115, 101>>,
               <<"Security Deposit", "Common Areas", "Use Restriction">>, 15, 2),
       Fixture(<<69, 109, 112, 108, 111, 121, 109, 101, 110, 116, 32, 67, 111, 110, 116, 114, 97, 99, 116>>,
               <<69, 109, 112, 108, 111, 121, 109, 101, 110, 116>>,
               <<"Non-Compete Clause", "Intellectual Property Assignment",
                 "Confidentiality Agreement">>, 12, 1),
       Fixture(<<83, 101, 114, 118, 105, 99, 101, 32, 65, 103, 114, 101, 101, 109, 101, 110, 116>>,
               <<83, 101, 114, 118, 105, 99, 101>>,
               <<"Intellectual Property Rights", "Scope of Work",
                 "Warranty Period">>, 18, 0),
       Fixture(<<80, 117, 114, 99, 104, 97, 115, 101, 32, 65, 103, 114, 101, 101, 109, 101, 110, 116>>,
               <<80, 117, 114, 99, 104, 97, 115, 101>>,
               <<"Net Payment Terms", "Manufacturer Warranty",
                 "Inspection Period">>, 10, 1) >>

\* random.randint(100000, 999999)
RandomIds == {100000, 999999}

\* an object of the heap: items are the dict's items; fresh tells a dict of
\* its own from the element of MOCK_SUMMARIES itself
\* a "copy" that is the same object
SameObject(d) == [fresh |-> FALSE, items |-> d]

\* summary.copy(): a new dict with the same keys and the same values
dict_copy(d) == [fresh |-> TRUE, items |-> d]

\* d.update(e)
Update(d, e) ==
    [k \in (DOMAIN d) \cup (DOMAIN e) |-> IF k \in DOMAIN e THEN e[k] ELSE d[k]]

\* summary.update({created_at, updated_at, user_email, id}); return summary
_add_timestamps(summary, now, n) ==
    [summary EXCEPT !.items =
        Update(@, [created_at |-> now, updated_at |-> now,
                   user_email |-> TEST_ACCOUNT_EMAIL, id |-> <<"mock", n>>])]

\* the class attribute once obj, made from its i-th element, has been
\* updated: an update of the element itself shows in the list
AfterUpdate(summaries, i, obj) ==
    IF obj.fresh THEN summaries ELSE [summaries EXCEPT ![i] = obj.items]

\* the elements get_mock_summary may take: the first whose title contains
\* document_title, any of them when there is no title or no match
MockChoices(summaries, document_title) ==
    LET hits == {i \in 1..Len(summaries) :
                    /\ document_title # None
                    /\ document_title[1] # <<>>
                    /\ Contains(Lower(summaries[i].document_title),
                                Lower(document_title[1]))}
    IN  IF hits # {} THEN {Min(hits)} ELSE 1..Len(summaries)

\* get_mock_summary(document_title) taking element i, with random id n
get_mock_summary(summaries, i, now, n) ==
    _add_timestamps(dict_copy(summaries[i]), now, n)

\* get_all_mock_summaries(): a copy of every element, the i-th dated
\* timedelta(days=i*2) back, in seconds (enumerate counts from 0); ns are the
\* random ids
get_all_mock_summaries(summaries, now, ns) ==
    [i \in 1..Len(summaries) |->
        LET mock_summary == _add_timestamps(dict_copy(summaries[i]), now, ns[i])
        IN  [mock_summary EXCEPT !.items =
                Update(@, [created_at |-> now - (i - 1) * 2 * 86400,
                           updated_at |-> now - (i - 1) * 2 * 86400])]]

\* the index of the first character at or after i that is not white space
\* (\s of a str pattern, for the characters of the texts here)
SkipSpace(s, i) ==
    IF \E j \in i..Len(s) : s[j] \notin Whitespace
      THEN Min({j \in i..Len(s) : s[j] \notin Whitespace})
      ELSE Len(s) + 1

\* the character class of emoji_pattern
IsEmoji(c) ==
    \/ c >= 128512 /\ c <= 128591
    \/ c >= 127744 /\ c <= 128511
    \/ c >= 128640 /\ c <= 128767
    \/ c >= 127456 /\ c <= 127487
    \/ c >= 9986 /\ c <= 10160
    \/ c >= 9410 /\ c <= 127569

\* where a match of  w1 \s+ w2 :? \s*  (IGNORECASE) that begins at i ends,
\* as the index after it; i itself when there is no match at i
PhraseEnd(s, i, w1, w2) ==
    LET low == Lower(s)
        a == i + Len(w1)
        b == SkipSpace(s, a)
        c == b + Len(w2)
        d == IF c <= Len(s) /\ s[c] = 58 THEN c + 1 ELSE c
    IN  IF a - 1 > Len(s) \/ s[i] \notin {w1[1], w1[1] - 32} THEN i
        ELSE IF SubSeq(low, i, a - 1) # w1 \/ b = a \/ c - 1 > Len(s) THEN i
        ELSE IF SubSeq(low, b, c - 1) # w2 THEN i
        ELSE SkipSpace(s, d)

\* the characters of s at the indices lo..hi that are in keep, in order
RECURSIVE Pick(_, _, _, _)
Pick(s, keep, lo, hi) ==
    IF lo > hi THEN <<>>
    ELSE IF lo = hi THEN (IF lo \in keep THEN <<s[lo]>> ELSE <<>>)
    ELSE Pick(s, keep, lo, (lo + hi) \div 2) \o
         Pick(s, keep, (lo + hi) \div 2 + 1, hi)
Keep(s, keep) == Pick(s, keep, 1, Len(s))

\* re.sub(pattern, '', text) for one of the two phrases: the characters of
\* every match go (two matches of a phrase cannot overlap)
DropPhrase(s, w1, w2) ==
    Keep(s, {k \in 1..Len(s) : ~\E i \in 1..k : PhraseEnd(s, i, w1, w2) > k})

\* re.sub(r'analyze\s+summary:?\s*', '', text, flags=re.IGNORECASE) and
\* re.sub(r'summary\s+analysis:?\s*', '', text, flags=re.IGNORECASE)
DropPhrases(s) ==
    DropPhrase(DropPhrase(s, <<97, 110, 97, 108, 121, 122, 101>>,
                          <<115, 117, 109, 109, 97, 114, 121>>),
               <<115, 117, 109, 109, 97, 114, 121>>,
               <<97, 110, 97, 108, 121, 115, 105, 115>>)

\* the line breaks of the run of white space around index k
BreaksAround(s, k) ==
    {j \in 1..Len(s) :
        /\ s[j] = 10
        /\ \A m \in (IF j < k THEN j ELSE k)..(IF j < k THEN k ELSE j) :
               s[m] \in Whitespace}

\* re.sub(r'\n\s*\n\s*\n+', '\n\n', text): of a run of white space that holds
\* three line breaks or more, what lies between the first and the last line
\* break goes, and these two stay
BlankLines(s) ==
    Keep(s, {k \in 1..Len(s) :
                LET breaks == BreaksAround(s, k)
                IN  ~( /\ s[k] \in Whitespace
                       /\ Cardinality(breaks) >= 3
                       /\ \E a, b \in breaks : a < k /\ k < b )})

\* re.sub(r'[ \t]+', ' ', text): a blank or tab after a blank or tab goes, the
\* first of a run becomes a blank
OneBlank(s) ==
    LET t == [k \in 1..Len(s) |-> IF s[k] = 9 THEN 32 ELSE s[k]]
    IN  Keep(t, {k \in 1..Len(t) :
                    ~(t[k] = 32 /\ (IF k = 1 THEN FALSE ELSE t[k - 1] = 32))})

\* re.sub(r'^\s+', '', text, flags=re.MULTILINE): white space at the start of
\* the text or after a line break goes, line breaks among it included
LineStarts(s) ==
    Keep(s, {k \in 1..Len(s) :
                ~( /\ s[k] \in Whitespace
                   /\ \E j \in 1..k :
                          /\ IF j = 1 THEN TRUE ELSE s[j - 1] = 10
                          /\ \A m \in j..k : s[m] \in Whitespace )})

\* re.sub(r'\*+', '', response_text), emoji_pattern.sub('', ...), the two
\* phrases, the three white space patterns, strip()
format_response(response_text) ==
    LET stars == SelectSeq(response_text, LAMBDA c : c # 42)
        emoji == SelectSeq(stars, LAMBDA c : ~IsEmoji(c))
    IN  Strip(LineStarts(OneBlank(BlankLines(DropPhrases(emoji)))))

----------------------------------------------------------------------------
(* FirestoreService *)

\* d.get(k, default)
Get(d, k, default) == IF k \in DOMAIN d THEN d[k] ELSE default

\* s.replace(c, w) for a single character c
RECURSIVE Replace(_, _, _)
Replace(s, c, w) ==
    IF s = <<>> THEN <<>>
    ELSE (IF Head(s) = c THEN w ELSE <<Head(s)>>) \o Replace(Tail(s), c, w)

\* user_email.replace('.', '_').replace('@', '_at_')
safe_email(user_email) == Replace(Replace(user_email, 46, <<95>>), 64, <<95, 97, 116, 95>>)

\* the document of the users collection that save_user_summary writes under:
\* "safe_email = user_email"
SaveDocument(user_email) == user_email

\* the document that get_user_summaries, get_summary_by_id and delete_summary
\* address
ReadDocument(user_email) == safe_email(user_email)

NoDocuments == [path \in {} |-> 0]

\* ids that document() may generate
AutoIds == {"s1", "s2"}

\* doc_data of save_user_summary
DocData(user_email, summary_data, now) ==
    [original_text |-> Get(summary_data, "original_text", <<>>),
     simplified_text |-> Get(summary_data, "simplified_text", <<>>),
     extracted_terms |-> Get(summary_data, "extracted_terms", <<>>),
     document_title |-> Get(summary_data, "document_title", <<85, 110, 116, 105, 116, 108, 101, 100, 32, 68, 111, 99, 117, 109, 101, 110, 116>>),
     created_at |-> now,
     updated_at |-> now,
     user_email |-> user_email,
     processing_status |-> Get(summary_data, "processing_status", "completed"),
     terms_count |-> Get(summary_data, "terms_count", 0),
     spanner_matches |-> Get(summary_data, "spanner_matches", 0),
     gemini_fallbacks |-> Get(summary_data, "gemini_fallbacks", 0)]

\* save_user_summary: the database afterwards and what is returned.  up: the
\* client exists and the write goes through; otherwise the exception is
\* logged and None is returned.
save_user_summary(database, user_email, summary_data, now, id, up) ==
    IF up
      THEN [db |-> [path \in (DOMAIN database) \cup {<<SaveDocument(user_email), id>>} |->
                       IF path = <<SaveDocument(user_email), id>>
                         THEN DocData(user_email, summary_data, now)
                         ELSE database[path]],
            result |-> Some(id)]
      ELSE [db |-> database, result |-> None]

\* the summaries under a user document, each with its id
SummariesUnder(database, document) ==
    {Update(database[path], [id |-> path[2]]) :
        path \in {q \in DOMAIN database : q[1] = document}}

\* order_by('created_at', DESCENDING).limit(limit): the results a query may
\* give, as sets; summaries of one instant come in either order
Newest(docs, limit) ==
    {chosen \in SUBSET docs :
        /\ Cardinality(chosen) = IF Cardinality(docs) < limit
                                   THEN Cardinality(docs) ELSE limit
        /\ \A x \in chosen, y \in docs \ chosen : x.created_at >= y.created_at}

\* get_user_summaries: the lists it may return ([] when the client fails)
get_user_summaries(database, user_email, limit, up) ==
    IF up THEN Newest(SummariesUnder(database, ReadDocument(user_email)), limit)
    ELSE {{}}

\* get_summary_by_id: the summary with its id, or None
get_summary_by_id(database, user_email, summary_id, up) ==
    LET path == <<ReadDocument(user_email), summary_id>>
    IN  IF up /\ path \in DOMAIN database
          THEN Some(Update(database[path], [id |-> summary_id]))
          ELSE None

\* delete_summary: the database afterwards and what is returned
delete_summary(database, user_email, summary_id, up) ==
    LET path == <<ReadDocument(user_email), summary_id>>
    IN  IF up
          THEN [db |-> [q \in (DOMAIN database) \ {path} |-> database[q]],
                result |-> TRUE]
          ELSE [db |-> database, result |-> FALSE]

----------------------------------------------------------------------------
(* LegalTextSimplificationService *)

\* gemini_service.comprehensive_simplification(extracted_text) is outside the
\* repository's sources: it returns a dict or raises.  complex_terms is a
\* dict, here the sequence of its items in order.
TermLien == <<<<108, 105, 101, 110>>, <<97, 32, 99, 108, 97, 105, 109>>>>
TermTort == <<<<116, 111, 114, 116>>, <<97, 32, 119, 114, 111, 110, 103>>>>
GeminiText == <<89, 111, 117, 32, 32, 111, 119, 101, 32, 42, 114, 101, 110, 116, 42, 46, 10>>
GeminiResult(terms) ==
    [simplified_text |-> GeminiText, complex_terms |-> Some(terms),
     original_word_count |-> 9, simplified_word_count |-> 3,
     reduction_percentage |-> 66]
ExpectedFields ==
    <<"simplified_text", "complex_terms", "original_word_count",
      "simplified_word_count", "reduction_percentage">>
Without(d, k) == [f \in (DOMAIN d) \ {k} |-> d[f]]
GeminiReplies ==
    {[kind |-> "raise", val |-> "quota exceeded"]} \cup
    {[kind |-> "ok", val |-> GeminiResult(terms)] :
        terms \in {<<>>, <<TermLien>>, <<TermLien, TermTort>>}} \cup
    {[kind |-> "ok", val |-> Without(GeminiResult(<<TermLien>>), ExpectedFields[n])] :
        n \in 1..Len(ExpectedFields)} \cup
    {[kind |-> "ok", val |-> [GeminiResult(<<>>) EXCEPT !.complex_terms = None]]}

\* "\n".join(f"{term}: {meaning}" ...)
RECURSIVE JoinTerms(_)
JoinTerms(terms) ==
    IF terms = <<>> THEN <<>>
    ELSE terms[1][1] \o <<58, 32>> \o terms[1][2] \o
         (IF Len(terms) > 1 THEN <<10>> ELSE <<>>) \o JoinTerms(Tail(terms))

TermsHeader == <<67, 79, 77, 80, 76, 69, 88, 32, 84, 69, 82, 77, 83, 45, 45, 45, 45, 45, 45, 45, 45, 45, 45, 45, 45, 45, 45>>

\* the first thing the body reads that the reply does not have: a key of
\* the dict, or the items of complex_terms when that is no dict
FirstFault(gemini_result) ==
    LET missing == {n \in 1..Len(ExpectedFields) :
                       ExpectedFields[n] \notin DOMAIN gemini_result}
        first == IF missing = {} THEN Len(ExpectedFields) + 1 ELSE Min(missing)
    IN  IF first <= 2 THEN Some(ExpectedFields[first])
        ELSE IF gemini_result.complex_terms = None THEN Some("items")
        ELSE IF missing # {} THEN Some(ExpectedFields[first])
        ELSE None

\* the body of the try for an ordinary account: the record built from the
\* reply, or the exception that leaves it
Simplified(extracted_text, reply) ==
    IF reply.kind = "raise" THEN [raised |-> TRUE, error |-> reply.val]
    ELSE IF FirstFault(reply.val) # None
      THEN [raised |-> TRUE, error |-> FirstFault(reply.val)[1]]
    ELSE LET gemini_result == reply.val
             simplified_text == gemini_result.simplified_text
             complex_terms == gemini_result.complex_terms[1]
             formatted_response ==
                 IF complex_terms # <<>>
                   THEN simplified_text \o TermsHeader \o <<10, 91>> \o
                        JoinTerms(complex_terms) \o <<93>>
                   ELSE simplified_text
             extracted_terms ==
                 [n \in 1..Len(complex_terms) |->
                     [term |-> complex_terms[n][1],
                      definition |-> complex_terms[n][2],
                      source |-> "gemini_comprehensive",
                      confidence |-> "high"]]
         IN  [raised |-> FALSE,
              value |->
                [original_text |-> extracted_text,
                 simplified_text |-> format_response(formatted_response),
                 extracted_terms |-> extracted_terms,
                 processing_status |-> "success",
                 terms_count |-> Len(complex_terms),
                 spanner_matches |-> 0,
                 gemini_matches |-> Len(complex_terms),
                 original_word_count |-> gemini_result.original_word_count,
                 simplified_word_count |-> gemini_result.simplified_word_count,
                 reduction_percentage |-> gemini_result.reduction_percentage,
                 processing_method |-> "gemini_comprehensive_simplification"]]

\* a body without its except clause: the exception leaves the method
Uncaught(extracted_text, outcome) == outcome

\* "except Exception as e": the record returned in place of the exception
Caught(extracted_text, outcome) ==
    IF outcome.raised
      THEN [raised |-> FALSE,
            value |-> [original_text |-> extracted_text,
                       simplified_text |-> extracted_text,
                       extracted_terms |-> <<>>,
                       processing_status |-> "error",
                       error_message |-> outcome.error]]
      ELSE outcome

\* the record returned to the test account, from the mock summary taken
MockResult(mock_summary) ==
    [original_text |-> mock_summary.original_text,
     simplified_text |-> format_response(mock_summary.simplified_text),
     extracted_terms |-> mock_summary.extracted_terms,
     processing_status |-> mock_summary.processing_status,
     terms_count |-> mock_summary.terms_count,
     spanner_matches |-> mock_summary.spanner_matches,
     gemini_fallbacks |-> mock_summary.gemini_fallbacks,
     processing_method |-> "mock_data_test_account"]

\* 'Legal Document Summary'
DefaultTitle == <<76, 101, 103, 97, 108, 32, 68, 111, 99, 117, 109, 101, 110, 116, 32, 83, 117, 109, 109, 97, 114, 121>>

\* firestore_data of save_summary ("document_title or ...": None and "" give
\* the default)
FirestoreData(summary_data, document_title) ==
    [original_text |-> Get(summary_data, "original_text", <<>>),
     simplified_text |-> Get(summary_data, "simplified_text", <<>>),
     extracted_terms |-> Get(summary_data, "extracted_terms", <<>>),
     document_title |-> IF document_title = None \/ document_title = Some(<<>>)
                          THEN DefaultTitle ELSE document_title[1],
     processing_status |-> Get(summary_data, "processing_status", "unknown"),
     total_terms_found |-> Get(summary_data, "total_terms_found", 0),
     spanner_terms |-> Get(summary_data, "spanner_terms", 0),
     gemini_terms |-> Get(summary_data, "gemini_terms", 0),
     processing_method |-> Get(summary_data, "processing_method", "unknown")]

----------------------------------------------------------------------------
(* Calls of the summaries service *)

\* op: the method; user_email, arg: what it was called with (for a save, the
\* document written); called: the collaborators it used; raised: whether an
\* exception left it; result: what it returned; reply: what Gemini answered
NoCall ==
    [op |-> "none", user_email |-> <<>>, arg |-> None, called |-> {},
     raised |-> FALSE, result |-> None, reply |-> None]

\* the accounts that use the summaries service, how far the clock runs and
\* how many documents Firestore may come to hold
Summaries ==
    [users |-> {TEST_ACCOUNT_EMAIL, TestShout, MailUser},
     ticks |-> 0, paced |-> FALSE, docs |-> 1]
\* the accounts that use Firestore directly
Documents ==
    [users |-> {MailUser, UserA}, ticks |-> 1, paced |-> FALSE, docs |-> 2]

\* what a method that goes to Firestore uses: the client, and logger.error
\* when the client fails
Firestore(up) == IF up THEN {"firestore"} ELSE {"firestore", "logger.error"}

FreeIds == AutoIds \ {path[2] : path \in DOMAIN db}

\* LegalTextSimplificationService.process_legal_document: i and n are the
\* draws of random.choice and random.randint for the test account, reply is
\* the answer of Gemini for anyone else (for the test account Gemini is not
\* asked, and a Gemini that is down stands for every Gemini)
process_legal_document(sc, extracted_text, user_email, reply, i, n) ==
    /\ user_email \in sc.users
    /\ IF is_test_account(user_email)
         THEN /\ reply.kind = "raise"
              /\ i \in MockChoices(MOCK_SUMMARIES, None)
              /\ LET mock_summary == get_mock_summary(MOCK_SUMMARIES, i, clock, n)
                 IN  /\ MOCK_SUMMARIES' = AfterUpdate(MOCK_SUMMARIES, i, mock_summary)
                     /\ call' = [op |-> "process_legal_document",
                                 user_email |-> user_email,
                                 arg |-> Some(extracted_text),
                                 called |-> {"mock"},
                                 raised |-> FALSE,
                                 result |-> Some(MockResult(mock_summary.items)),
                                 reply |-> None]
         ELSE /\ i = 1 /\ n = Min(RandomIds)
              /\ LET outcome == Caught(extracted_text, Simplified(extracted_text, reply))
                 IN  call' = [op |-> "process_legal_document",
                              user_email |-> user_email,
                              arg |-> Some(extracted_text),
                              called |-> {"gemini"},
                              raised |-> outcome.raised,
                              result |-> IF outcome.raised THEN None
                                         ELSE Some(outcome.value),
                              reply |-> Some(reply)]
              /\ UNCHANGED MOCK_SUMMARIES
    /\ UNCHANGED db
    /\ UNCHANGED rvars

\* LegalTextSimplificationService.save_summary
save_summary(sc, user_email, summary_data, document_title, n, id, up) ==
    /\ user_email \in sc.users
    /\ IF is_test_account(user_email)
         THEN /\ id = "s1" /\ up
              /\ call' = [op |-> "save_summary", user_email |-> user_email,
                          arg |-> None, called |-> {},
                          raised |-> FALSE,
                          result |-> Some(<<"mock_doc", n>>),
                          reply |-> None]
              /\ UNCHANGED db
         ELSE /\ n = Min(RandomIds)
              /\ id \in FreeIds
              /\ Cardinality(DOMAIN db) < sc.docs
              /\ LET firestore_data == FirestoreData(summary_data, document_title)
                     saved == save_user_summary(db, user_email, firestore_data,
                                                clock, id, up)
                 IN  /\ db' = saved.db
                     /\ call' = [op |-> "save_summary", user_email |-> user_email,
                                 arg |-> IF up
                                           THEN Some(DocData(user_email, firestore_data, clock))
                                           ELSE None,
                                 called |-> Firestore(up),
                                 raised |-> FALSE,
                                 result |-> saved.result,
                                 reply |-> None]
    /\ UNCHANGED MOCK_SUMMARIES
    /\ UNCHANGED rvars

\* [:limit] of a list
Take(list, limit) == SubSeq(list, 1, IF Len(list) < limit THEN Len(list) ELSE limit)

\* LegalTextSimplificationService.get_user_summaries: ns are the draws of
\* random.randint
LegalTextGetUserSummaries(sc, user_email, limit, ns, up) ==
    /\ user_email \in sc.users
    /\ IF is_test_account(user_email)
         THEN /\ up
              /\ LET all == get_all_mock_summaries(MOCK_SUMMARIES, clock, ns)
                 IN  /\ MOCK_SUMMARIES' =
                            [i \in 1..Len(MOCK_SUMMARIES) |->
                                AfterUpdate(MOCK_SUMMARIES, i, all[i])[i]]
                     /\ call' = [op |-> "get_user_summaries", user_email |-> user_email,
                                 arg |-> Some(limit), called |-> {"mock"},
                                 raised |-> FALSE,
                                 result |-> Take([i \in 1..Len(all) |-> all[i].items],
                                                 limit),
                                 reply |-> None]
         ELSE /\ ns = [i \in 1..Len(MOCK_SUMMARIES) |-> Min(RandomIds)]
              /\ \E found \in get_user_summaries(db, user_email, limit, up) :
                     call' = [op |-> "get_user_summaries", user_email |-> user_email,
                              arg |-> Some(limit), called |-> Firestore(up),
                              raised |-> FALSE,
                              result |-> found,
                              reply |-> None]
              /\ UNCHANGED MOCK_SUMMARIES
    /\ UNCHANGED db
    /\ UNCHANGED rvars

\* LegalTextSimplificationService.get_summary_by_id: Firestore for everyone
LegalTextGetSummaryById(sc, user_email, summary_id, up) ==
    /\ user_email \in sc.users
    /\ call' = [op |-> "get_summary_by_id", user_email |-> user_email,
                arg |-> Some(summary_id), called |-> Firestore(up),
                raised |-> FALSE,
                result |-> get_summary_by_id(db, user_email, summary_id, up),
                reply |-> None]
    /\ UNCHANGED <<MOCK_SUMMARIES, db>>
    /\ UNCHANGED rvars

\* FirestoreService.save_user_summary, called with a summary
FirestoreSave(sc, user_email, summary_data, id, up) ==
    /\ user_email \in sc.users
    /\ id \in FreeIds
    /\ Cardinality(DOMAIN db) < sc.docs
    /\ LET saved == save_user_summary(db, user_email, summary_data, clock, id, up)
       IN  /\ db' = saved.db
           /\ call' = [op |-> "save_user_summary", user_email |-> user_email,
                       arg |-> IF up THEN Some(DocData(user_email, summary_data, clock))
                               ELSE None,
                       called |-> Firestore(up),
                       raised |-> FALSE,
                       result |-> saved.result,
                       reply |-> None]
    /\ UNCHANGED MOCK_SUMMARIES
    /\ UNCHANGED rvars

\* FirestoreService.get_user_summaries
FirestoreList(sc, user_email, limit, up) ==
    /\ user_email \in sc.users
    /\ \E found \in get_user_summaries(db, user_email, limit, up) :
           call' = [op |-> "get_user_summaries", user_email |-> user_email,
                    arg |-> Some(limit), called |-> Firestore(up),
                    raised |-> FALSE,
                    result |-> found,
                    reply |-> None]
    /\ UNCHANGED <<MOCK_SUMMARIES, db>>
    /\ UNCHANGED rvars

\* FirestoreService.get_summary_by_id
FirestoreGet(sc, user_email, summary_id, up) ==
    /\ user_email \in sc.users
    /\ call' = [op |-> "get_summary_by_id", user_email |-> user_email,
                arg |-> Some(summary_id), called |-> Firestore(up),
                raised |-> FALSE,
                result |-> get_summary_by_id(db, user_email, summary_id, up),
                reply |-> None]
    /\ UNCHANGED <<MOCK_SUMMARIES, db>>
    /\ UNCHANGED rvars

\* FirestoreService.delete_summary
FirestoreDelete(sc, user_email, summary_id, up) ==
    /\ user_email \in sc.users
    /\ LET deleted == delete_summary(db, user_email, summary_id, up)
       IN  /\ db' = deleted.db
           /\ call' = [op |-> "delete_summary", user_email |-> user_email,
                       arg |-> Some(summary_id), called |-> Firestore(up),
                       raised |-> FALSE,
                       result |-> deleted.result,
                       reply |-> None]
    /\ UNCHANGED MOCK_SUMMARIES
    /\ UNCHANGED rvars

\* MockDataService.get_mock_summary(document_title): i is the element taken
GetMockSummary(document_title, i, n) ==
    /\ i \in MockChoices(MOCK_SUMMARIES, document_title)
    /\ LET summary == get_mock_summary(MOCK_SUMMARIES, i, clock, n)
       IN  /\ MOCK_SUMMARIES' = AfterUpdate(MOCK_SUMMARIES, i, summary)
           /\ call' = [op |-> "get_mock_summary", user_email |-> <<>>,
                       arg |-> document_title, called |-> {"mock"},
                       raised |-> FALSE,
                       result |-> Some(summary.items),
                       reply |-> None]
    /\ UNCHANGED db
    /\ UNCHANGED rvars

\* MockDataService.get_all_mock_summaries()
GetAllMockSummaries(ns) ==
    /\ LET all == get_all_mock_summaries(MOCK_SUMMARIES, clock, ns)
       IN  /\ MOCK_SUMMARIES' =
                  [i \in 1..Len(MOCK_SUMMARIES) |->
                      AfterUpdate(MOCK_SUMMARIES, i, all[i])[i]]
           /\ call' = [op |-> "get_all_mock_summaries", user_email |-> <<>>,
                       arg |-> None, called |-> {"mock"},
                       raised |-> FALSE,
                       result |-> [i \in 1..Len(all) |-> all[i].items],
                       reply |-> None]
    /\ UNCHANGED db
    /\ UNCHANGED rvars

----------------------------------------------------------------------------
(* Specifications *)

\* the process starts: the table is loaded from the file, no request is open
Init ==
    /\ storage_file \in {AbsentFile, CorruptFile}
    /\ analysis_storage = load_analysis_storage(storage_file)
    /\ clock = StartTime
    /\ reqs = [s \in 1..MaxInFlight |-> Idle]
    /\ inserted = <<>>
    /\ MOCK_SUMMARIES = Fixtures
    /\ db = NoDocuments
    /\ call = NoCall

AnalysisTexts == {TextRent}
FreshTexts == {None, Some(TextBlank), Some(TextRent)}

\* the operations that can write to the store, and the clock
Writers(sc) ==
    \/ Tick(sc)
    \/ \E s \in sc.slots, u \in sc.users :
         \/ \E title \in sc.titles, text \in AnalysisTexts, save \in sc.saves :
              ComprehensiveAnalysisDemo(sc, s, u, title, text, save)
         \/ \E text \in AnalysisTexts : ComprehensiveAnalysisCall(sc, s, u, text)
         \/ \E text \in FreshTexts : PdfFromDocumentStart(sc, s, u, text)
    \/ \E s \in sc.slots :
         \/ \E reply \in RouteReplies(sc.analyses), save \in sc.saves :
              ComprehensiveAnalysisResume(sc, s, reply, save)
         \/ \E reply \in AnalyzerReplies(sc.analyses), save \in sc.saves :
              PdfFromDocumentAnalyzed(sc, s, reply, save)
         \/ \E reply \in RenderReplies : PdfFromDocumentRendered(sc, s, reply)

\* analyze-document-file
FileAnalysis(sc) ==
    \/ \E s \in sc.slots, u \in sc.users, upload \in sc.uploads :
         AnalyzeFileCall(sc, s, u, upload)
    \/ \E s \in sc.slots :
         \/ \E disk \in {"ok", "io_error"} : AnalyzeFileExtracted(sc, s, disk)
         \/ \E reply \in RouteReplies(sc.analyses) : AnalyzeFileResume(sc, s, reply)

\* the operations that never write to the store
Readers(sc) ==
    \/ FileAnalysis(sc)
    \/ \E s \in sc.slots, u \in sc.users :
         \/ \E title \in sc.titles, found \in BOOLEAN :
              PdfFromDocumentDemo(sc, s, u, title, found)
         \/ get_demo_documents(sc, s, u)
    \/ \E s \in sc.slots :
         \/ \E analysis_data \in sc.analyses : GeneratePdfReportCall(sc, s, analysis_data)
         \/ \E reply \in RenderReplies : GeneratePdfReportRendered(sc, s, reply)

\* every endpoint, any client, one request at a time
Next == Writers(General) \/ Readers(General)
Spec == Init /\ [][Next]_vars

\* the demo account's analysis and report requests, two at a time
NextDemo ==
    \E s \in Demo.slots, u \in Demo.users, title \in Demo.titles :
        \/ \E text \in AnalysisTexts, save \in Demo.saves :
             ComprehensiveAnalysisDemo(Demo, s, u, title, text, save)
        \/ \E found \in BOOLEAN : PdfFromDocumentDemo(Demo, s, u, title, found)
SpecDemo == Init /\ [][NextDemo]_vars

\* one client uploading files of every kind
NextExtraction == FileAnalysis(Extraction)
SpecExtraction == Init /\ [][NextExtraction]_vars

\* analysis and report requests on a disk that may fail, with restarts
NextFaulty == Writers(Faulty) \/ Restart
SpecFaulty == Init /\ [][NextFaulty]_vars

\* one client sending analysis and report requests one after the other
NextSequential == Writers(Sequential)
SpecSequential == Init /\ [][NextSequential]_vars

\* analysis and report requests of ordinary users, two at a time
NextConcurrent ==
    \/ Tick(Concurrent)
    \/ \E s \in Concurrent.slots, u \in Concurrent.users :
         \/ \E text \in AnalysisTexts : ComprehensiveAnalysisCall(Concurrent, s, u, text)
         \/ \E text \in FreshTexts : PdfFromDocumentStart(Concurrent, s, u, text)
    \/ \E s \in Concurrent.slots :
         \/ \E reply \in RouteReplies(Concurrent.analyses), save \in Concurrent.saves :
              ComprehensiveAnalysisResume(Concurrent, s, reply, save)
         \/ \E reply \in AnalyzerReplies(Concurrent.analyses), save \in Concurrent.saves :
              PdfFromDocumentAnalyzed(Concurrent, s, reply, save)
         \/ \E reply \in RenderReplies : PdfFromDocumentRendered(Concurrent, s, reply)
SpecConcurrent == Init /\ [][NextConcurrent]_vars

\* analysis requests one after the other: ten of one client, then anyone's
NextNeighbours ==
    \/ Tick(Neighbours)
    \/ \E s \in Neighbours.slots, u \in Neighbours.users, text \in AnalysisTexts :
         ComprehensiveAnalysisCall(Neighbours, s, u, text)
    \/ \E s \in Neighbours.slots, reply \in RouteReplies(Neighbours.analyses),
          save \in Neighbours.saves :
         ComprehensiveAnalysisResume(Neighbours, s, reply, save)
SpecNeighbours == Init /\ [][NextNeighbours]_vars

\* what is sent to the summaries service
SummaryTexts == {<<108, 105, 101, 110>>, <<32, 65, 110, 97, 108, 121, 122, 101, 32, 115, 117, 109, 109, 97, 114, 121, 58, 32, 116, 111, 114, 116, 10>>}
SummaryData ==
    {Caught(text, Simplified(text, reply)).value :
        text \in {<<108, 105, 101, 110>>},
        reply \in {[kind |-> "raise", val |-> "quota exceeded"],
                   [kind |-> "ok", val |-> GeminiResult(<<TermLien>>)]}}
MockTitles == {None, Some(<<>>), Some(<<108, 101, 97, 115, 101>>), Some(<<65, 103, 114, 101, 101, 109, 101, 110, 116>>), Some(<<87, 105, 108, 108>>)}
Limits == {1, 10}
IdDraws == {[i \in 1..Len(Fixtures) |-> n] : n \in RandomIds}

\* the summaries service with Gemini and Firestore behind it
NextSummaries ==
    \E user_email \in Summaries.users :
        \/ \E text \in SummaryTexts, reply \in GeminiReplies,
              i \in 1..Len(Fixtures), n \in RandomIds :
             process_legal_document(Summaries, text, user_email, reply, i, n)
        \/ \E title \in {None, Some(<<87, 105, 108, 108>>)},
              n \in RandomIds, id \in AutoIds, up \in BOOLEAN :
             save_summary(Summaries, user_email,
                          Simplified(<<108, 105, 101, 110>>,
                                     [kind |-> "ok", val |-> GeminiResult(<<TermLien>>)]).value,
                          title, n, id, up)
        \/ \E limit \in Limits, ns \in IdDraws, up \in BOOLEAN :
             LegalTextGetUserSummaries(Summaries, user_email, limit, ns, up)
        \/ \E summary_id \in AutoIds, up \in BOOLEAN :
             LegalTextGetSummaryById(Summaries, user_email, summary_id, up)
SpecSummaries == Init /\ [][NextSummaries]_vars

\* Firestore used directly: save, list, get and delete
NextFirestore ==
    \/ Tick(Documents)
    \/ \E user_email \in Documents.users, up \in BOOLEAN :
         \/ \E summary_data \in SummaryData, id \in AutoIds :
              FirestoreSave(Documents, user_email, summary_data, id, up)
         \/ \E limit \in Limits : FirestoreList(Documents, user_email, limit, up)
         \/ \E summary_id \in AutoIds : FirestoreGet(Documents, user_email, summary_id, up)
         \/ \E summary_id \in AutoIds : FirestoreDelete(Documents, user_email, summary_id, up)
SpecFirestore == Init /\ [][NextFirestore]_vars

\* the demo account and the mock data: every way to look a fixture up
Lookups ==
    [users |-> {DemoShout}, slots |-> {1}, ticks |-> MaxTicks,
     puts |-> 1, saves |-> {"written"}, paced |-> FALSE, lead |-> 0,
     titles |-> {TitleRent, TitleDefault}, analyses |-> {"r1"},
     uploads |-> Uploads]
NextFixtures ==
    \/ Tick(Lookups)
    \/ \E s \in Lookups.slots, u \in Lookups.users, title \in Lookups.titles,
          text \in AnalysisTexts, save \in Lookups.saves :
         ComprehensiveAnalysisDemo(Lookups, s, u, title, text, save)
    \/ \E title \in MockTitles, i \in 1..Len(Fixtures), n \in RandomIds :
         GetMockSummary(title, i, n)
    \/ \E ns \in IdDraws : GetAllMockSummaries(ns)
    \/ \E i \in 1..Len(Fixtures), n \in RandomIds :
         process_legal_document(Summaries, <<108, 105, 101, 110>>, TestShout,
                                [kind |-> "raise", val |-> "quota exceeded"], i, n)
SpecFixtures == Init /\ [][NextFixtures]_vars

----------------------------------------------------------------------------
(* Properties *)

Last(seq) == seq[Len(seq)]

\* the entries a user owns, and the writes a user has made
EntriesOf(storage, u) == {k \in DOMAIN storage : storage[k].user_email = u}
PutsOf(u) == SelectSeq(inserted, LAMBDA e : e.user_email = u)

\* the step writes to the store on behalf of the request in slot s
WroteNow(s) ==
    /\ reqs'[s] # reqs[s]
    /\ "store" \in reqs'[s].called
    /\ Free(s) \/ "store" \notin reqs[s].called

\* the step opens a request in slot s
Opened(s) == Free(s) /\ reqs'[s].op # "idle" /\ reqs'[s] # reqs[s]

\* C1: once a user has made 11 writes one after the other through the
\* analysis branch of comprehensive-analysis, exactly 10 entries under the
\* user's prefix remain and they are the 10 written last.
C1_KeepsLastTen ==
    \A u \in Sequential.users :
        (~is_demo_user(u) /\ Len(PutsOf(u)) = Retention + 1 /\ InFlight = {}) =>
            /\ Cardinality(UserKeys(analysis_storage, u)) = Retention
            /\ UserKeys(analysis_storage, u) =
                   {PutsOf(u)[i].key : i \in 2..(Retention + 1)}

\* C2: no user, the demo account included, ever owns more than 10 entries.
C2_AtMostTenPerUser ==
    \A u \in Sequential.users :
        Cardinality(EntriesOf(analysis_storage, u)) <= Retention

\* C3: right after a request of user U has written record R, the entry under
\* the greatest key with U's prefix is R, written by U.
C3_PutThenMostRecent ==
    [][\A s \in DOMAIN reqs :
          WroteNow(s) =>
              LET latest == analysis_storage'[LatestKey(analysis_storage', reqs'[s].user_email)]
              IN  /\ latest.full_analysis = reqs'[s].analysis
                  /\ latest.user_email = reqs'[s].user_email]_vars

\* C4: the key a write uses is not yet a key of the table, so no write
\* replaces an entry of an earlier write.
C4_KeyIsFresh ==
    [][\A s \in DOMAIN reqs :
          WroteNow(s) => reqs'[s].storage_key \notin DOMAIN analysis_storage]_vars

\* C5: a successful analyze-document-file response comes after a store write
\* for its user, who then owns a stored record.
C5_FileAnalysisIsStored ==
    \A s \in DOMAIN reqs :
        (reqs[s].op = "analyze_document_file" /\ reqs[s].status = 200) =>
            /\ "store" \in reqs[s].called
            /\ EntriesOf(analysis_storage, reqs[s].user_email) # {}

\* C6: no request of the demo account, however it is spelled, calls the
\* analyzer.
C6_DemoNeverCallsAnalyzer ==
    \A s \in DOMAIN reqs :
        is_demo_user(reqs[s].user_email) => "analyzer" \notin reqs[s].called

\* the document has no text: a PDF whose pages are all blank, an image for
\* which the vision call answers nothing but whitespace
DocumentTextBlank(upload) ==
    LET actual == _detect_file_type(upload.content, upload.mime_type)
    IN  IF actual = MimePdf
          THEN upload.pages # None /\ JoinPages(upload.pages[1], 1) = <<>>
        ELSE IF actual # None /\ actual[1] = "image"
          THEN upload.ocr # None /\ Strip(upload.ocr[1]) = <<>>
        ELSE FALSE

\* C7: when the extractor returns for a document without text, the request
\* ends with status 400 and neither analyzer nor store has been called.
C7_BlankDocumentRejected ==
    [][\A s \in DOMAIN reqs :
          ( /\ reqs[s].pc = "await_extract"
            /\ DocumentTextBlank(reqs[s].upload)
            /\ reqs'[s] # reqs[s]
            /\ reqs'[s].detail # <<"Document analysis failed", "Failed to process document">> )
          => /\ reqs'[s].status = 400
             /\ reqs'[s].called \cap {"analyzer", "store"} = {}]_vars

Guidance ==
    {"No analysis data found for user", "No analysis data available for PDF generation"}

\* C8: the response that carries the guidance message of
\* generate-pdf-from-document (no stored analysis, no fresh text) has
\* status 400.
C8_MissingInputIsClientError ==
    \A s \in DOMAIN reqs :
        ( /\ reqs[s].op = "generate_pdf_from_document"
          /\ reqs[s].pc = "done"
          /\ reqs[s].detail # <<>>
          /\ Last(reqs[s].detail) \in Guidance )
        => reqs[s].status = 400

\* C9: a comprehensive-analysis or generate-pdf-from-document request whose
\* analyzer answers success = False or raises ends with status 500 and the
\* analyzer's message, has not written to the store, and none of its steps
\* changes the table or the file.
AwaitsAnalyzer(r) ==
    /\ r.op \in {"comprehensive_analysis", "generate_pdf_from_document"}
    /\ r.pc \in {"await_route", "await_analyzer"}
C9_AnalyzerFailureStoresNothing ==
    [][\A s \in DOMAIN reqs :
          /\ (Opened(s) /\ AwaitsAnalyzer(reqs'[s]))
                => UNCHANGED <<analysis_storage, storage_file>>
          /\ (AwaitsAnalyzer(reqs[s]) /\ reqs'[s].reply.kind \in {"fail", "raise"})
                => /\ reqs'[s].pc = "done"
                   /\ reqs'[s].status = 500
                   /\ Last(reqs'[s].detail) = reqs'[s].reply.val
                   /\ "store" \notin reqs'[s].called
                   /\ UNCHANGED <<analysis_storage, storage_file>>]_vars

\* C9 happens: an analysis request has failed on the analyzer's answer while
\* the table held entries
C9_Witness ==
    \E s \in DOMAIN reqs :
        /\ reqs[s].op = "comprehensive_analysis"
        /\ reqs[s].reply.kind = "fail"
        /\ reqs[s].status = 500
        /\ DOMAIN analysis_storage # {}

\* C10: generate-pdf-from-document for a non-demo user: a user who owns a
\* stored record gets one of them rendered without an analyzer call; a user
\* who owns none and sends non-blank text gets the analyzer called, and its
\* result is in the store when the renderer is called; otherwise the request
\* fails and the renderer is not called.
C10_RecordChoiceOrder ==
    [][\A s \in DOMAIN reqs :
          /\ ( /\ Opened(s)
               /\ reqs'[s].op = "generate_pdf_from_document"
               /\ ~is_demo_user(reqs'[s].user_email) )
             => LET u == reqs'[s].user_email
                    own == EntriesOf(analysis_storage, u)
                IN  IF own # {}
                      THEN /\ reqs'[s].pc = "await_render"
                           /\ reqs'[s].analysis \in
                                  {analysis_storage[k].full_analysis : k \in own}
                           /\ "analyzer" \notin reqs'[s].called
                    ELSE IF Strip(reqs'[s].extracted_text) # <<>>
                      THEN /\ reqs'[s].pc = "await_analyzer"
                           /\ "analyzer" \in reqs'[s].called
                    ELSE /\ reqs'[s].pc = "done"
                         /\ reqs'[s].status # 200
                         /\ "renderer" \notin reqs'[s].called
          /\ (reqs[s].pc = "await_analyzer" /\ reqs'[s].pc = "await_render")
             => /\ reqs'[s].storage_key \in DOMAIN analysis_storage'
                /\ analysis_storage'[reqs'[s].storage_key].full_analysis = reqs'[s].analysis]_vars

\* the demo account in the spellings clients use
DemoAccount(u) == u \in {DEMO_USER_EMAIL, DemoShout}

\* a finished demo request of the given endpoint
DemoDone(r, op) == r.op = op /\ r.pc = "done" /\ DemoAccount(r.user_email)

\* the title, lowered, contains one of the words
HasWord(title, words) == \E w \in words : Contains(Lower(title), w)

\* the record selected by three families of words, the first family found
\* deciding, and the loan record when none is found
FixtureBy(title, rental, internship, tamil) ==
    IF HasWord(title, rental) THEN "rental_demo_data"
    ELSE IF HasWord(title, internship) THEN "internship_demo_data"
    ELSE IF HasWord(title, tamil) THEN "tamil_demo_data"
    ELSE "loan_demo_data"

WordRental == <<114, 101, 110, 116, 97, 108>>
WordRent == <<114, 101, 110, 116>>
WordInternship == <<105, 110, 116, 101, 114, 110, 115, 104, 105, 112>>
WordNda == <<110, 100, 97>>
WordConfidentiality ==
    <<99, 111, 110, 102, 105, 100, 101, 110, 116, 105, 97, 108, 105, 116, 121>>
WordKadan == <<107, 97, 100, 97, 110>>
WordTamil == <<116, 97, 109, 105, 108>>
TamilMarker == <<2965, 2975, 2985, 3021>>

\* C11: the record a demo analysis returns depends on the title alone: by the
\* words "rental" or "rent" the rental record, else by "internship", "nda" or
\* "confidentiality" the internship record, else by "kadan", "tamil" or the
\* Tamil-script marker the Tamil record, else the loan record; two requests
\* with the same title get the same record.
C11_FixtureByTitle ==
    /\ \A s \in DOMAIN reqs :
          DemoDone(reqs[s], "comprehensive_analysis") =>
              reqs[s].analysis =
                  FixtureBy(reqs[s].document_title, {WordRental, WordRent},
                            {WordInternship, WordNda, WordConfidentiality},
                            {WordKadan, WordTamil, TamilMarker})
    /\ \A s, t \in DOMAIN reqs :
          ( /\ DemoDone(reqs[s], "comprehensive_analysis")
            /\ DemoDone(reqs[t], "comprehensive_analysis")
            /\ reqs[s].document_title = reqs[t].document_title )
          => reqs[s].analysis = reqs[t].analysis

\* C11 as stated: the keywords are "rental", "internship" or "nda", and the
\* Tamil-script marker, and every other title selects the loan record.
C11_FixtureByNamedKeywords ==
    \A s \in DOMAIN reqs :
        DemoDone(reqs[s], "comprehensive_analysis") =>
            reqs[s].analysis =
                FixtureBy(reqs[s].document_title, {WordRental},
                          {WordInternship, WordNda}, {TamilMarker})

\* C11 happens: a title with a rental and an internship word got the rental
\* record, and one with an internship word and the marker the internship one
C11_Witness ==
    /\ DemoDone(reqs[1], "comprehensive_analysis")
    /\ reqs[1].document_title = TitleRentalNda
    /\ reqs[1].analysis = "rental_demo_data"
    /\ DemoDone(reqs[2], "comprehensive_analysis")
    /\ reqs[2].document_title = TitleNdaKadan
    /\ reqs[2].analysis = "internship_demo_data"

\* the document category of a demo record and of a static report file
CategoryOf(x) ==
    CASE x \in {"rental_demo_data", "rental_result.pdf"} -> "rental"
      [] x \in {"internship_demo_data", "result_intern.pdf"} -> "internship"
      [] x \in {"tamil_demo_data", "result_kadan.pdf"} -> "tamil"
      [] x \in {"loan_demo_data", "loan_result.pdf"} -> "loan"
      [] OTHER -> "none"

\* C12: a demo analysis and a demo report request with the same title get a
\* record and a static file of the same document category.
C12_PdfMatchesFixture ==
    \A s, t \in DOMAIN reqs :
        ( /\ DemoDone(reqs[s], "comprehensive_analysis")
          /\ DemoDone(reqs[t], "generate_pdf_from_document")
          /\ reqs[s].document_title = reqs[t].document_title )
        => CategoryOf(reqs[t].analysis) = CategoryOf(reqs[s].analysis)

\* C12 happens: the Latin-script Tamil title got the Tamil record and the
\* Tamil report file
C12_Witness ==
    /\ DemoDone(reqs[1], "comprehensive_analysis")
    /\ DemoDone(reqs[2], "generate_pdf_from_document")
    /\ reqs[1].document_title = TitleTamil
    /\ reqs[2].document_title = TitleTamil
    /\ reqs[2].status = 200
    /\ CategoryOf(reqs[2].analysis) = "tamil"

SignatureTable ==
    {[head |-> <<37, 80, 68, 70>>, at8 |-> <<>>, type |-> <<"application", "pdf">>],
     [head |-> <<255, 216, 255>>, at8 |-> <<>>, type |-> <<"image", "jpeg">>],
     [head |-> <<137, 80, 78, 71, 13, 10, 26, 10>>, at8 |-> <<>>, type |-> <<"image", "png">>],
     [head |-> <<71, 73, 70, 56, 55, 97>>, at8 |-> <<>>, type |-> <<"image", "gif">>],
     [head |-> <<71, 73, 70, 56, 57, 97>>, at8 |-> <<>>, type |-> <<"image", "gif">>],
     [head |-> <<66, 77>>, at8 |-> <<>>, type |-> <<"image", "bmp">>],
     [head |-> <<82, 73, 70, 70>>, at8 |-> <<87, 69, 66, 80>>, type |-> <<"image", "webp">>],
     [head |-> <<73, 73, 42, 0>>, at8 |-> <<>>, type |-> <<"image", "tiff">>],
     [head |-> <<77, 77, 0, 42>>, at8 |-> <<>>, type |-> <<"image", "tiff">>]}

BeginsWith(content, sig) ==
    /\ Len(content) >= Len(sig.head)
    /\ \A i \in 1..Len(sig.head) : content[i] = sig.head[i]
    /\ IF sig.at8 = <<>> THEN TRUE
       ELSE /\ Len(content) >= 8 + Len(sig.at8)
            /\ \A i \in 1..Len(sig.at8) : content[8 + i] = sig.at8[i]

\* C14: when the extractor has looked at an upload, the type it detected is
\* the one of the signature the bytes begin with, whatever type was
\* declared; the detected type is the declared one only if no signature
\* matches or the matching signature stands for the declared type.
C14_SignatureDecides ==
    [][\A s \in DOMAIN reqs :
          (reqs[s].pc = "await_extract" /\ reqs'[s] # reqs[s]) =>
              LET up == reqs[s].upload
                  got == reqs'[s].extraction.mime_type
                  hit == {sig \in SignatureTable : BeginsWith(up.content, sig)}
              IN  /\ \A sig \in hit : got = sig.type
                  /\ got = up.mime_type =>
                         (hit = {} \/ \E sig \in hit : sig.type = up.mime_type)]_vars

\* C14 happens: PNG bytes declared as a PDF were detected as a PNG
C14_Witness ==
    \E s \in DOMAIN reqs :
        /\ reqs[s].pc = "await_route"
        /\ reqs[s].upload.content = <<137, 80, 78, 71, 13, 10, 26, 10>>
        /\ reqs[s].upload.mime_type = <<"application", "pdf">>
        /\ reqs[s].extraction.mime_type = <<"image", "png">>

\* the extractor's answer for the request in slot s, taken in this step
Extracted(s) == reqs[s].pc = "await_extract" /\ reqs'[s] # reqs[s]

IsPdfType(t) == t = <<"application", "pdf">>
IsImageType(t) == t # None /\ t[1] = "image"

Holds(file, storage) ==
    IF file \in {AbsentFile, CorruptFile} THEN DOMAIN storage = {}
    ELSE /\ DOMAIN storage = {m[1] : m \in file.members}
         /\ \A m \in file.members : storage[m[1]] = m[2]

\* C18: when the process starts, at first or again, the table is what the
\* file holds, and empty if the file is absent or cannot be parsed.
C18_LoadAtStart ==
    /\ Holds(storage_file, analysis_storage)
    /\ [][(\A s \in DOMAIN reqs : reqs'[s] = Idle)
             => Holds(storage_file, analysis_storage')]_vars

\* C18 happens: the process has started again and loaded a table with entries
C18_Witness ==
    /\ \A s \in DOMAIN reqs : reqs[s] = Idle
    /\ DOMAIN analysis_storage # {}
    /\ Holds(storage_file, analysis_storage)

\* C19: when a store write's save has succeeded, the file holds exactly the
\* table as it is when the write is over, and loading the file gives that
\* table.
C19_FlushHoldsTable ==
    [][\A s \in DOMAIN reqs :
          (WroteNow(s) /\ reqs'[s].saved = "written") =>
              /\ storage_file' \notin {AbsentFile, CorruptFile}
              /\ Holds(storage_file', analysis_storage')
              /\ load_analysis_storage(storage_file') = analysis_storage']_vars

\* C19 happens: a write whose save failed, then a write whose save succeeded,
\* and the file holds the entries of both
C19_Witness ==
    /\ reqs[1].saved = "dump_failed" /\ reqs[2].saved = "written"
    /\ reqs[1].storage_key # reqs[2].storage_key
    /\ {reqs[1].storage_key, reqs[2].storage_key} \subseteq DOMAIN analysis_storage
    /\ storage_file \notin {AbsentFile, CorruptFile}
    /\ Holds(storage_file, analysis_storage)

\* the first part of an error's detail, by endpoint
FailurePrefix(op) ==
    CASE op = "comprehensive_analysis" -> {"Comprehensive analysis failed", "Analysis failed"}
      [] op = "analyze_document_file" ->
             {"Document analysis failed", "Analysis failed",
              "No text could be extracted from the document"}
      [] op \in {"generate_pdf_report", "generate_pdf_from_document"} ->
             {"PDF generation failed"}
      [] OTHER -> {}

\* C20: a request that is over has status 200 and no error, or status 400 or
\* 500 and a detail that begins with the endpoint's own message; when the
\* extractor or the analyzer raised, the status is 500 and the detail ends
\* with what was raised.
C20_ErrorsAreTranslated ==
    \A s \in DOMAIN reqs :
        reqs[s].pc = "done" =>
            /\ reqs[s].status \in {200, 400, 500}
            /\ reqs[s].status = 200 => reqs[s].detail = <<>>
            /\ reqs[s].status # 200 =>
                   /\ reqs[s].detail # <<>>
                   /\ reqs[s].detail[1] \in FailurePrefix(reqs[s].op)
            /\ reqs[s].reply.kind = "raise" =>
                   /\ reqs[s].status = 500
                   /\ Last(reqs[s].detail) = reqs[s].reply.val
            /\ reqs[s].extraction.raised =>
                   /\ reqs[s].status = 500
                   /\ Last(reqs[s].detail) = "Failed to process document"

\* C20 happens: the extractor raised in one request, and so did the analyzer
\* in another, and each got its 500 with a message
C20_Witness ==
    \E s \in DOMAIN reqs :
        /\ reqs[s].op = "analyze_document_file"
        /\ reqs[s].pc = "done"
        /\ reqs[s].extraction.raised
        /\ reqs[s].status = 500
        /\ reqs[s].detail = <<"Document analysis failed", "Failed to process document">>

\* the request in slot s has answered 200 to an analysis of a text
AnalyzedOk(r) ==
    r.op = "comprehensive_analysis" /\ r.pc = "done" /\ r.status = 200

C22_ReturnedKeyIsStored ==
    [][\A s \in DOMAIN reqs :
          (WroteNow(s) /\ AnalyzedOk(reqs'[s]))
          => IF reqs'[s].storage_key \in DOMAIN analysis_storage'
               THEN analysis_storage'[reqs'[s].storage_key].full_analysis
                        = reqs'[s].analysis
               ELSE FALSE]_vars

\* C26: a write of user A removes no entry whose user_email is another user.
C26_EvictionPerUser ==
    [][\A s \in DOMAIN reqs :
          WroteNow(s) =>
              \A k \in DOMAIN analysis_storage :
                  analysis_storage[k].user_email # reqs'[s].user_email
                  => k \in DOMAIN analysis_storage']_vars

\* C27: the stored record that generate-pdf-from-document takes for user A
\* is the record of an entry whose user_email is A.
C27_ReadsPerUser ==
    [][\A s \in DOMAIN reqs :
          ( /\ Opened(s)
            /\ reqs'[s].op = "generate_pdf_from_document"
            /\ "store_read" \in reqs'[s].called )
          => \E k \in EntriesOf(analysis_storage, reqs'[s].user_email) :
                 analysis_storage[k].full_analysis = reqs'[s].analysis]_vars

\* C29: of the report requests of one user that carry fresh text, at most one
\* is waiting for the analyzer at any time.
C29_OneFreshAnalysis ==
    \A s, t \in DOMAIN reqs :
        ( /\ s # t
          /\ reqs[s].op = "generate_pdf_from_document"
          /\ reqs[t].op = "generate_pdf_from_document"
          /\ reqs[s].pc = "await_analyzer" /\ reqs[t].pc = "await_analyzer" )
        => reqs[s].user_email # reqs[t].user_email

\* identifier a names key k: a is k with its first or a later underscore
\* written as "@", cut at the underscore after that
Names(a, k) ==
    \E i \in 1..Len(a) :
        /\ a[i] = 64
        /\ StartsWith(k, SubSeq(a, 1, i - 1) \o <<95>> \o SubSeq(a, i + 1, Len(a)))

\* the guidance answer to a report request without stored record and text
GuidanceTo(r) ==
    /\ r.op = "generate_pdf_from_document" /\ r.pc = "done"
    /\ r.detail # <<>>
    /\ Last(r.detail) = "No analysis data found for user"

\* C25: when generate-pdf-from-document answers a user who has no stored
\* record and sends no text while the table is not empty, the requester owns
\* no entry of the table and the answer lists, for every key of the table, an
\* identifier made from that key: the answer is a function of other users'
\* entries.
C25_GuidanceListsOtherUsers ==
    [][\A s \in DOMAIN reqs :
          (Opened(s) /\ GuidanceTo(reqs'[s]))
          => /\ DOMAIN analysis_storage # {}
             /\ EntriesOf(analysis_storage, reqs'[s].user_email) = {}
             /\ \A k \in DOMAIN analysis_storage :
                    \E a \in reqs'[s].available_users : Names(a, k)
             /\ \A a \in reqs'[s].available_users :
                    \E k \in DOMAIN analysis_storage : Names(a, k)]_vars

\* C25 happens: the same user has sent the same request twice, owning nothing
\* both times, and the two answers differ
C25_Witness ==
    /\ GuidanceTo(reqs[1]) /\ GuidanceTo(reqs[2])
    /\ reqs[1].user_email = reqs[2].user_email
    /\ EntriesOf(analysis_storage, reqs[1].user_email) = {}
    /\ reqs[1].available_users # reqs[2].available_users

\* the account is the test account, in any spelling
TestAccount(email) == Lower(email) = <<110, 101, 119, 64, 103, 109, 97, 105, 108, 46, 99, 111, 109>>

\* the content of fixture f is in record r
FromFixture(r, f) ==
    /\ r.original_text = f.original_text
    /\ r.extracted_terms = f.extracted_terms
    /\ r.terms_count = f.terms_count
    /\ r.spanner_matches = f.spanner_matches
    /\ r.gemini_fallbacks = f.gemini_fallbacks

\* C23: for the test account, in any spelling, process_legal_document,
\* save_summary and get_user_summaries use neither Gemini nor Firestore: they
\* return a record made from a mock summary, a mock document id, and the
\* mock summaries up to the limit.
C23_TestAccountIsMocked ==
    ( /\ call.op \in {"process_legal_document", "save_summary", "get_user_summaries"}
      /\ TestAccount(call.user_email) )
    => /\ call.called \cap {"gemini", "firestore"} = {}
       /\ ~call.raised
       /\ call.op = "process_legal_document" =>
              /\ call.result[1].processing_method = "mock_data_test_account"
              /\ call.result[1].processing_status = "completed"
              /\ \E i \in 1..Len(Fixtures) : FromFixture(call.result[1], Fixtures[i])
       /\ call.op = "save_summary" => call.result[1][1] = "mock_doc"
       /\ call.op = "get_user_summaries" =>
              /\ Len(call.result) = IF call.arg[1] < Len(Fixtures)
                                      THEN call.arg[1] ELSE Len(Fixtures)
              /\ \A i \in 1..Len(call.result) :
                     /\ FromFixture(call.result[i], Fixtures[i])
                     /\ call.result[i].document_title = Fixtures[i].document_title
                     /\ call.result[i].user_email = TEST_ACCOUNT_EMAIL

\* C23 happens: the test account, spelled with capitals, has had a document
\* processed while Firestore held a summary of somebody else
C23_Witness ==
    /\ call.op = "process_legal_document"
    /\ call.user_email = TestShout
    /\ call.result[1].processing_method = "mock_data_test_account"
    /\ DOMAIN db # {}

\* Gemini failed or left out something the method reads
GeminiFaulty(reply) ==
    \/ reply.kind = "raise"
    \/ \E n \in 1..Len(ExpectedFields) : ExpectedFields[n] \notin DOMAIN reply.val
    \/ IF "complex_terms" \in DOMAIN reply.val
         THEN reply.val.complex_terms = None ELSE FALSE

\* C30: process_legal_document for an ordinary account returns and never
\* raises.  When Gemini raised or its result lacks a field, the record has
\* processing_status 'error', the given text as simplified_text and as
\* original_text, no extracted terms, and the error message; otherwise it has
\* processing_status 'success' and terms_count is the number of
\* extracted_terms.
C30_ProcessNeverRaises ==
    (call.op = "process_legal_document" /\ ~TestAccount(call.user_email))
    => /\ ~call.raised
       /\ call.result # None
       /\ LET r == call.result[1]
          IN  IF GeminiFaulty(call.reply[1])
                THEN /\ r.processing_status = "error"
                     /\ r.simplified_text = call.arg[1]
                     /\ r.original_text = call.arg[1]
                     /\ r.extracted_terms = <<>>
                     /\ "error_message" \in DOMAIN r
                     /\ call.reply[1].kind = "raise" => r.error_message = call.reply[1].val
                ELSE /\ r.processing_status = "success"
                     /\ r.terms_count = Len(r.extracted_terms)
                     /\ r.terms_count = Len(call.reply[1].val.complex_terms[1])

\* C30 happens: Gemini has answered without the word counts, and the record
\* returned says 'error'
C30_Witness ==
    /\ call.op = "process_legal_document"
    /\ ~TestAccount(call.user_email)
    /\ call.reply # None
    /\ call.reply[1].kind = "ok"
    /\ "original_word_count" \notin DOMAIN call.reply[1].val
    /\ call.result[1].processing_status = "error"

\* C28: when save_user_summary(E, data) has returned id D, a
\* get_summary_by_id(E, D) that follows returns the summary saved, and a
\* get_user_summaries(E) that follows, with the default limit, contains it
\* (Firestore being reachable in both).
C28_FirestoreRoundTrip ==
    [][( /\ call.op = "save_user_summary" /\ call.result # None
         /\ call'.user_email = call.user_email
         /\ "logger.error" \notin call'.called )
       => LET saved == Update(call.arg[1], [id |-> call.result[1]])
          IN  /\ (call'.op = "get_summary_by_id" /\ call'.arg = call.result)
                 => call'.result = Some(saved)
              /\ (call'.op = "get_user_summaries" /\ call'.arg = Some(10))
                 => saved \in call'.result]_vars

\* the part of a returned summary that comes from the fixture
Content(summary) == [k \in DOMAIN Fixtures[1] |-> summary[k]]

\* the fixtures whose title contains the title asked for, none when no title
\* is given
TitleHits(title) ==
    IF title = None THEN {}
    ELSE IF title[1] = <<>> THEN {}
    ELSE {i \in 1..Len(Fixtures) :
             Contains(Lower(Fixtures[i].document_title), Lower(title[1]))}

\* get_mock_summary has returned, called with this title
LookedUp(c, title) == c.op = "get_mock_summary" /\ c.arg = title

\* C24 as stated: of two consecutive get_mock_summary calls with the same
\* argument, the later returns the content the earlier returned.
C24_SameContentEveryTime ==
    [][\A title \in MockTitles :
          (LookedUp(call, title) /\ LookedUp(call', title))
          => Content(call'.result[1]) = Content(call.result[1])]_vars

\* C24: no demo or test-account operation changes MOCK_SUMMARIES.  A lookup
\* by a title that a fixture's title contains returns the content of the
\* first such fixture, every time; a lookup without such a title returns the
\* content of some fixture, not always the same one; get_all_mock_summaries
\* returns the content of every fixture, in order; the record the test
\* account gets is made from a fixture; the demo analysis is the same for the
\* same title.  The id and the timestamps are new in every summary returned.
C24_FixturesNeverMutated ==
    [][/\ MOCK_SUMMARIES' = MOCK_SUMMARIES
       /\ MOCK_SUMMARIES' = Fixtures
       /\ call'.op = "get_mock_summary" =>
              LET hits == TitleHits(call'.arg)
              IN  IF hits # {}
                    THEN Content(call'.result[1]) = Fixtures[Min(hits)]
                    ELSE \E i \in 1..Len(Fixtures) :
                             Content(call'.result[1]) = Fixtures[i]
       /\ call'.op = "get_all_mock_summaries" =>
              /\ Len(call'.result) = Len(Fixtures)
              /\ \A i \in 1..Len(Fixtures) : Content(call'.result[i]) = Fixtures[i]
       /\ call'.op = "process_legal_document" =>
              \E i \in 1..Len(Fixtures) : FromFixture(call'.result[1], Fixtures[i])
       /\ \A s \in DOMAIN reqs :
              ( /\ DemoDone(reqs[s], "comprehensive_analysis")
                /\ DemoDone(reqs'[s], "comprehensive_analysis")
                /\ reqs'[s].document_title = reqs[s].document_title )
              => reqs'[s].analysis = reqs[s].analysis]_vars

\* C24 happens: after a demo analysis and a later second, a fixture has been
\* looked up by a title and returned with a new id
C24_Witness ==
    /\ DemoDone(reqs[1], "comprehensive_analysis")
    /\ clock > StartTime
    /\ LookedUp(call, Some(<<65, 103, 114, 101, 101, 109, 101, 110, 116>>))
    /\ call.result[1].id = <<"mock", 999999>>
    /\ call.result[1].created_at = clock

====
